---- MODULE Spec2Model ----
(***************************************************************************)
(* A model of the HTML tokenizer of src/src/tokenizer (mod.rs, token.rs,   *)
(* state.rs).                                                              *)
(*                                                                         *)
(* Characters are Unicode code points (integers), strings are sequences of *)
(* code points, Option<T> is a sequence of length 0 (None) or 1 (Some).    *)
(* Every handler fn x_state(&mut self) is an operator x_state(self) from   *)
(* the record of the tokenizer's fields to the record after the call; the  *)
(* action named after the State variant is the arm of the match in scan    *)
(* that calls it.                                                          *)
(***************************************************************************)
EXTENDS Integers, Sequences, FiniteSets, TLC

VARIABLES
    input,                      \* the &str given to Tokenizer::new (never changes)
    html,                       \* html: Peekable<Chars>, the scalars not yet read
    tokens,                     \* tokens: VecDeque<Token>
    current_state,              \* current_state: State
    return_state,               \* return_state: State
    current_token,              \* current_token: Option<Token>
    current_character,          \* current_character: Option<char>
    temporary_buffer,           \* temporary_buffer: Option<String>
    character_reference_code,   \* character_reference_code: u32
    open_tags,                  \* open_tags: Vec<String>
    reconsume,                  \* reconsume: bool
    consume_log,                \* history: what the calls of consume have returned
    pc,                         \* "new", "scan": in the loop of scan, called by new or
                                \* by the owner; "ready": no call in progress; "panic",
                                \* "hang": the call panicked, or will never return
    returned,                   \* what the calls of next_token have returned, in order
    scan_calls                  \* how many times scan was called after construction

vars == <<input, html, tokens, current_state, return_state, current_token,
          current_character, temporary_buffer, character_reference_code,
          open_tags, reconsume, consume_log, pc, returned, scan_calls>>

----------------------------------------------------------------------------
(* Code points the handlers match on. *)

NULL == 0
CHARACTER_TABULATION == 9
LINE_FEED == 10
FORM_FEED == 12
SPACE == 32
EXCLAMATION_MARK == 33
QUOTATION_MARK == 34
NUMBER_SIGN == 35
AMPERSAND == 38
APOSTROPHE == 39
HYPHEN_MINUS == 45
SOLIDUS == 47
SEMICOLON == 59
LESS_THAN_SIGN == 60
EQUALS_SIGN == 61
GREATER_THAN_SIGN == 62
QUESTION_MARK == 63
LEFT_SQUARE_BRACKET == 91
RIGHT_SQUARE_BRACKET == 93
REPLACEMENT_CHARACTER == 65533

\* '\u{0009}' | '\u{000A}' | '\u{000C}' | '\u{0020}'
Whitespace == {CHARACTER_TABULATION, LINE_FEED, FORM_FEED, SPACE}

\* 'A'..='Z' and 'a'..='z'
UpperAlpha == 65..90
LowerAlpha == 97..122

\* char::is_alphabetic (the Unicode Alphabetic property), exact below U+0100.
is_alphabetic(c) ==
    \/ c \in UpperAlpha \/ c \in LowerAlpha
    \/ c \in {170, 181, 186} \/ c \in 192..214 \/ c \in 216..246 \/ c \in 248..255

\* char::is_ascii_digit
is_ascii_digit(c) == c \in 48..57

\* char::is_ascii_hexdigit
is_ascii_hexdigit(c) == c \in 48..57 \/ c \in 65..70 \/ c \in 97..102

\* char::is_alphanumeric (Alphabetic, or general category Nd, Nl, No), exact below U+0100.
is_alphanumeric(c) ==
    is_alphabetic(c) \/ is_ascii_digit(c) \/ c \in {178, 179, 185, 188, 189, 190}

\* char::to_ascii_lowercase
to_ascii_lowercase(c) == IF c \in UpperAlpha THEN c + 32 ELSE c

\* char::to_ascii_uppercase
to_ascii_uppercase(c) == IF c \in LowerAlpha THEN c - 32 ELSE c


\* the cast without the addition
add_0x0000(c) == c % 256

\* (c as u8 + 0x0020) as char, used for c in 'A'..='Z'
add_0x0020(c) == ((c % 256) + 32) % 256

----------------------------------------------------------------------------
(* token.rs: the token model. *)

\* Attribute::new
Attribute_new == [name |-> <<>>, value |-> <<>>, prefix |-> <<>>, namespace |-> <<>>]

\* Token::new_start_tag / Tag::new_start_tag
new_start_tag ==
    [type |-> "Tag", tag_name |-> <<>>, self_closing |-> FALSE, attributes |-> <<>>,
     is_end_tag |-> FALSE, self_closing_acknowledged |-> FALSE]

\* Token::new_end_tag / Tag::new_end_tag
new_end_tag ==
    [type |-> "Tag", tag_name |-> <<>>, self_closing |-> FALSE, attributes |-> <<>>,
     is_end_tag |-> TRUE, self_closing_acknowledged |-> FALSE]

\* Token::new_comment
new_comment == [type |-> "Comment", data |-> <<>>]

\* Token::new_doctype / Doctype::new
new_doctype ==
    [type |-> "DOCTYPE", name |-> <<>>, public_id |-> <<>>, system_id |-> <<>>,
     force_quirks |-> FALSE]

\* Token::Char(c)
Char(c) == [type |-> "Char", char |-> c]

\* Token::EOF
EOF == [type |-> "EOF"]

IsTag(t) == t.type = "Tag"
IsComment(t) == t.type = "Comment"
IsDoctype(t) == t.type = "DOCTYPE"

----------------------------------------------------------------------------
(* mod.rs: the helpers of the driver, on the record of the fields. *)

\* the u32 character_reference_code as two 16-bit halves, hi * 2^16 + lo (the
\* integers of TLC are 32-bit signed and cannot hold every u32)
u32(n) == [hi |-> n \div 65536, lo |-> n % 65536]

\* the value of a u32 that is below 2^31
u32_value(x) == x.hi * 65536 + x.lo

\* the fields of Tokenizer, as the record the handlers work on; panic is set
\* by a handler that aborts the program
Self ==
    [html |-> html, tokens |-> tokens, current_state |-> current_state,
     return_state |-> return_state, current_token |-> current_token,
     current_character |-> current_character, temporary_buffer |-> temporary_buffer,
     character_reference_code |-> character_reference_code, open_tags |-> open_tags,
     reconsume |-> reconsume, consume_log |-> consume_log, panic |-> FALSE]

\* the history of consume before its first call. returned: what the last call
\* returned; absent: a call has returned None; unlike: a call that found the
\* flag set returned something else than the call before it; revived: a call
\* returned a scalar after a call had returned None; calls: consume has been
\* called; flagged: the last call found the flag set
NothingConsumed ==
    [returned |-> <<>>, calls |-> FALSE, flagged |-> FALSE, absent |-> FALSE,
     unlike |-> FALSE, revived |-> FALSE]

\* the history after a call of consume that found the flag as flag and
\* returned scalar
consumed(log, flag, scalar) ==
    [returned |-> scalar,
     calls    |-> TRUE,
     flagged  |-> flag,
     absent   |-> log.absent \/ scalar = <<>>,
     unlike   |-> log.unlike \/ (flag /\ log.calls /\ scalar # log.returned),
     revived  |-> log.revived \/ (log.absent /\ scalar # <<>>)]

\* html.next() on a Chars that is exhausted returns None, and the cursor stays
html_next(self) ==
    IF self.html = <<>>
    THEN [self EXCEPT !.current_character = <<>>]
    ELSE [self EXCEPT !.current_character = <<Head(self.html)>>,
                      !.html = Tail(self.html)]

\* consume that clears the flag and takes the next scalar of the input all the same
consume_ignoring_flag(self) ==
    LET r == html_next([self EXCEPT !.reconsume = FALSE])
    IN  [r EXCEPT !.consume_log =
                      consumed(self.consume_log, self.reconsume, r.current_character)]

\* fn consume: the scalar it returns is the current_character of the result;
\* the call is recorded in consume_log
consume(self) ==
    LET r == IF self.reconsume
             THEN [self EXCEPT !.reconsume = FALSE]
             ELSE html_next(self)
    IN  [r EXCEPT !.consume_log =
                      consumed(self.consume_log, self.reconsume, r.current_character)]

switch_to(self, state) == [self EXCEPT !.current_state = state]

reconsume_(self) == [self EXCEPT !.reconsume = TRUE]

reconsume_in(self, state) == switch_to([self EXCEPT !.reconsume = TRUE], state)

set_return_state(self, state) == [self EXCEPT !.return_state = state]

switch_to_return_state(self) == switch_to(self, self.return_state)

reconsume_in_return_state(self) == reconsume_in(self, self.return_state)


\* emit_end_of_file_token with push_front for push_back
emit_end_of_file_token_at_front(self) == [self EXCEPT !.tokens = <<EOF>> \o @]

emit_end_of_file_token(self) == [self EXCEPT !.tokens = Append(@, EOF)]

emit_character_token(self, c) == [self EXCEPT !.tokens = Append(@, Char(c))]

\* current_character.take(): the slot is left None
emit_current_input_character(self) ==
    IF self.current_character # <<>>
    THEN emit_character_token([self EXCEPT !.current_character = <<>>],
                              self.current_character[1])
    ELSE self

create_new_start_tag_token(self) == [self EXCEPT !.current_token = <<new_start_tag>>]

create_new_end_tag_token(self) == [self EXCEPT !.current_token = <<new_end_tag>>]

create_new_comment_token(self) == [self EXCEPT !.current_token = <<new_comment>>]

create_new_doctype_token(self) == [self EXCEPT !.current_token = <<new_doctype>>]

HasTag(self) == self.current_token # <<>> /\ IsTag(self.current_token[1])
HasComment(self) == self.current_token # <<>> /\ IsComment(self.current_token[1])
HasDoctype(self) == self.current_token # <<>> /\ IsDoctype(self.current_token[1])

append_character_to_current_tag_token(self, c) ==
    IF HasTag(self)
    THEN [self EXCEPT !.current_token[1].tag_name = Append(@, c)]
    ELSE self


\* start_a_new_attribute that starts none
start_no_new_attribute(self) == self

\* Tag::new_attribute
start_a_new_attribute(self) ==
    IF HasTag(self)
    THEN [self EXCEPT !.current_token[1].attributes = Append(@, Attribute_new)]
    ELSE self

\* Tag::append_character_to_attribute_name: the last attribute, if any
append_character_to_attribute_name(self, c) ==
    IF HasTag(self) /\ self.current_token[1].attributes # <<>>
    THEN LET n == Len(self.current_token[1].attributes)
         IN  [self EXCEPT !.current_token[1].attributes[n].name = Append(@, c)]
    ELSE self

\* Tag::append_character_to_attribute_value: the last attribute, if any
append_character_to_attribute_value(self, c) ==
    IF HasTag(self) /\ self.current_token[1].attributes # <<>>
    THEN LET n == Len(self.current_token[1].attributes)
         IN  [self EXCEPT !.current_token[1].attributes[n].value = Append(@, c)]
    ELSE self

\* Tag::set_self_closing on the current token, as self_closing_start_tag_state does
set_self_closing(self) ==
    IF HasTag(self)
    THEN [self EXCEPT !.current_token[1].self_closing = TRUE]
    ELSE self

append_character_to_current_comment_token(self, c) ==
    IF HasComment(self)
    THEN [self EXCEPT !.current_token[1].data = Append(@, c)]
    ELSE self

append_character_to_current_doctype_name(self, c) ==
    IF HasDoctype(self)
    THEN [self EXCEPT !.current_token[1].name = Append(@, c)]
    ELSE self

\* Doctype::append_character_to_public_identifier: nothing when public_id is None
append_character_to_current_doctype_public_identifier(self, c) ==
    IF HasDoctype(self) /\ self.current_token[1].public_id # <<>>
    THEN [self EXCEPT !.current_token[1].public_id[1] = Append(@, c)]
    ELSE self

\* Doctype::append_character_to_system_identifier: nothing when system_id is None
append_character_to_current_doctype_system_identifier(self, c) ==
    IF HasDoctype(self) /\ self.current_token[1].system_id # <<>>
    THEN [self EXCEPT !.current_token[1].system_id[1] = Append(@, c)]
    ELSE self

set_current_doctype_quirks_flag_to_on(self) ==
    IF HasDoctype(self)
    THEN [self EXCEPT !.current_token[1].force_quirks = TRUE]
    ELSE self

\* set_current_doctype_public_identifier_to_empty_string leaving the
\* identifier missing
leave_current_doctype_public_identifier_missing(self) == self

set_current_doctype_public_identifier_to_empty_string(self) ==
    IF HasDoctype(self)
    THEN [self EXCEPT !.current_token[1].public_id = << <<>> >>]
    ELSE self

set_current_doctype_system_identifier_to_empty_string(self) ==
    IF HasDoctype(self)
    THEN [self EXCEPT !.current_token[1].system_id = << <<>> >>]
    ELSE self

\* current_token.take(), pushed whatever it is
emit_current_token(self) ==
    IF self.current_token # <<>>
    THEN [self EXCEPT !.tokens = Append(@, self.current_token[1]),
                      !.current_token = <<>>]
    ELSE self

\* emit_current_comment_token that pushes a clone and keeps the current token
emit_current_comment_token_cloned(self) ==
    IF self.current_token # <<>> /\ IsComment(self.current_token[1])
    THEN [self EXCEPT !.tokens = Append(@, self.current_token[1])]
    ELSE self

\* current_token.take(), pushed only if it is a comment
emit_current_comment_token(self) ==
    IF self.current_token # <<>>
    THEN IF IsComment(self.current_token[1])
         THEN [self EXCEPT !.tokens = Append(@, self.current_token[1]),
                           !.current_token = <<>>]
         ELSE [self EXCEPT !.current_token = <<>>]
    ELSE self


\* emit_current_tag_token that pushes the name of a self-closing start tag too
emit_current_tag_token_opening_self_closing(self) ==
    IF self.current_token # <<>>
    THEN LET tag == self.current_token[1]
             taken == [self EXCEPT !.current_token = <<>>]
         IN  IF IsTag(tag)
             THEN IF tag.is_end_tag
                  THEN IF tag.self_closing
                       THEN [taken EXCEPT !.tokens = Append(@, tag)]
                       ELSE IF /\ self.open_tags # <<>>
                               /\ self.open_tags[Len(self.open_tags)] = tag.tag_name
                            THEN [taken EXCEPT
                                    !.open_tags = SubSeq(@, 1, Len(@) - 1),
                                    !.tokens = Append(@, tag)]
                            ELSE taken
                  ELSE [taken EXCEPT !.open_tags = Append(@, tag.tag_name),
                                     !.tokens = Append(@, tag)]
             ELSE taken
    ELSE self

\* emit_current_tag_token that pops open_tags for an end tag whatever its name
emit_current_tag_token_popping_any(self) ==
    IF self.current_token # <<>>
    THEN LET tag == self.current_token[1]
             taken == [self EXCEPT !.current_token = <<>>]
         IN  IF IsTag(tag)
             THEN IF ~tag.self_closing
                  THEN IF tag.is_end_tag
                       THEN IF self.open_tags # <<>>
                            THEN [taken EXCEPT
                                    !.open_tags = SubSeq(@, 1, Len(@) - 1),
                                    !.tokens = Append(@, tag)]
                            ELSE taken
                       ELSE [taken EXCEPT !.open_tags = Append(@, tag.tag_name),
                                          !.tokens = Append(@, tag)]
                  ELSE [taken EXCEPT !.tokens = Append(@, tag)]
             ELSE taken
    ELSE self

\* emit_current_tag_token that does not record the start tag it emits in
\* open_tags
emit_current_tag_token_not_opened(self) ==
    IF self.current_token # <<>>
    THEN LET tag == self.current_token[1]
             taken == [self EXCEPT !.current_token = <<>>]
         IN  IF IsTag(tag)
             THEN IF ~tag.self_closing /\ tag.is_end_tag
                  THEN IF /\ self.open_tags # <<>>
                          /\ self.open_tags[Len(self.open_tags)] = tag.tag_name
                       THEN [taken EXCEPT
                               !.open_tags = SubSeq(@, 1, Len(@) - 1),
                               !.tokens = Append(@, tag)]
                       ELSE taken
                  ELSE [taken EXCEPT !.tokens = Append(@, tag)]
             ELSE taken
    ELSE self

\* emit_current_tag_token that leaves the name of an emitted end tag on open_tags
emit_current_tag_token_not_popped(self) ==
    IF self.current_token # <<>>
    THEN LET tag == self.current_token[1]
             taken == [self EXCEPT !.current_token = <<>>]
         IN  IF IsTag(tag)
             THEN IF ~tag.self_closing
                  THEN IF tag.is_end_tag
                       THEN IF /\ self.open_tags # <<>>
                               /\ self.open_tags[Len(self.open_tags)] = tag.tag_name
                            THEN [taken EXCEPT !.tokens = Append(@, tag)]
                            ELSE taken
                       ELSE [taken EXCEPT !.open_tags = Append(@, tag.tag_name),
                                          !.tokens = Append(@, tag)]
                  ELSE [taken EXCEPT !.tokens = Append(@, tag)]
             ELSE taken
    ELSE self

\* emit_current_tag_token pushing the end tag that matches no open tag too
emit_current_tag_token_unmatched_too(self) ==
    IF self.current_token # <<>>
    THEN LET tag == self.current_token[1]
             taken == [self EXCEPT !.current_token = <<>>]
         IN  IF IsTag(tag)
             THEN IF ~tag.self_closing
                  THEN IF tag.is_end_tag
                       THEN IF /\ self.open_tags # <<>>
                               /\ self.open_tags[Len(self.open_tags)] = tag.tag_name
                            THEN [taken EXCEPT
                                    !.open_tags = SubSeq(@, 1, Len(@) - 1),
                                    !.tokens = Append(@, tag)]
                            ELSE [taken EXCEPT !.tokens = Append(@, tag)]
                       ELSE [taken EXCEPT !.open_tags = Append(@, tag.tag_name),
                                          !.tokens = Append(@, tag)]
                  ELSE [taken EXCEPT !.tokens = Append(@, tag)]
             ELSE taken
    ELSE self

\* current_token.take(); a start tag is pushed on open_tags and emitted, an end
\* tag is emitted (and open_tags popped) only if it names the top of open_tags,
\* a self-closing tag is emitted as it is
emit_current_tag_token(self) ==
    IF self.current_token # <<>>
    THEN LET tag == self.current_token[1]
             taken == [self EXCEPT !.current_token = <<>>]
         IN  IF IsTag(tag)
             THEN IF ~tag.self_closing
                  THEN IF tag.is_end_tag
                       THEN IF /\ self.open_tags # <<>>
                               /\ self.open_tags[Len(self.open_tags)] = tag.tag_name
                            THEN [taken EXCEPT
                                    !.open_tags = SubSeq(@, 1, Len(@) - 1),
                                    !.tokens = Append(@, tag)]
                            ELSE taken
                       ELSE [taken EXCEPT !.open_tags = Append(@, tag.tag_name),
                                          !.tokens = Append(@, tag)]
                  ELSE [taken EXCEPT !.tokens = Append(@, tag)]
             ELSE taken
    ELSE self

\* is_in_attribute_value that never sees an attribute value as the return state
is_in_attribute_value_never(self) == FALSE

is_in_attribute_value(self) ==
    self.return_state \in {"AttributeValueUnquoted", "AttributeValueDoubleQuoted",
                           "AttributeValueSingleQuoted"}

set_temporary_buffer_to_empty_string(self) == [self EXCEPT !.temporary_buffer = << <<>> >>]

get_temporary_buffer(self) ==
    IF self.temporary_buffer # <<>> THEN self.temporary_buffer[1] ELSE <<>>

append_character_to_temporary_buffer(self, c) ==
    IF self.temporary_buffer # <<>>
    THEN [self EXCEPT !.temporary_buffer[1] = Append(@, c)]
    ELSE [self EXCEPT !.temporary_buffer = << <<c>> >>]

set_character_reference_code_to_zero(self) ==
    [self EXCEPT !.character_reference_code = u32(0)]

----------------------------------------------------------------------------
(* mod.rs: the handlers of the tag states. *)


\* data_state that emits U+FFFD for U+0000, as the other states store it
data_state_replacing_null(self) ==
    LET s == consume(self)
        c == s.current_character
    IN  IF c # <<>>
        THEN CASE c[1] = AMPERSAND ->
                    switch_to(set_return_state(s, "Data"), "CharacterReference")
               [] c[1] = LESS_THAN_SIGN -> switch_to(s, "TagOpen")
               [] c[1] = NULL ->
                    emit_character_token([s EXCEPT !.current_character = <<>>],
                                         REPLACEMENT_CHARACTER)
               [] OTHER -> emit_current_input_character(s)
        ELSE emit_end_of_file_token(s)

data_state(self) ==
    LET s == consume(self)
        c == s.current_character
    IN  IF c # <<>>
        THEN CASE c[1] = AMPERSAND ->
                    switch_to(set_return_state(s, "Data"), "CharacterReference")
               [] c[1] = LESS_THAN_SIGN -> switch_to(s, "TagOpen")
               [] c[1] = NULL -> emit_current_input_character(s)
               [] OTHER -> emit_current_input_character(s)
        ELSE emit_end_of_file_token(s)

\* tag_open_state that emits the end-of-file token alone at the end of the input
tag_open_state_dropping_less_than_sign(self) ==
    LET s == consume(self)
        c == s.current_character
    IN  IF c # <<>>
        THEN CASE c[1] = EXCLAMATION_MARK -> switch_to(s, "MarkupDeclarationOpen")
               [] c[1] = SOLIDUS -> switch_to(s, "EndTagOpen")
               [] c[1] = QUESTION_MARK ->
                    create_new_comment_token(reconsume_in(s, "BogusComment"))
               [] OTHER ->
                    IF is_alphabetic(c[1])
                    THEN reconsume_in(create_new_start_tag_token(s), "TagName")
                    ELSE emit_character_token(reconsume_in(s, "Data"), LESS_THAN_SIGN)
        ELSE emit_end_of_file_token(s)

\* tag_open_state that switches to the tag name state without reconsuming the letter
tag_open_state_consuming_letter(self) ==
    LET s == consume(self)
        c == s.current_character
    IN  IF c # <<>>
        THEN CASE c[1] = EXCLAMATION_MARK -> switch_to(s, "MarkupDeclarationOpen")
               [] c[1] = SOLIDUS -> switch_to(s, "EndTagOpen")
               [] c[1] = QUESTION_MARK ->
                    create_new_comment_token(reconsume_in(s, "BogusComment"))
               [] OTHER ->
                    IF is_alphabetic(c[1])
                    THEN switch_to(create_new_start_tag_token(s), "TagName")
                    ELSE emit_character_token(reconsume_in(s, "Data"), LESS_THAN_SIGN)
        ELSE emit_end_of_file_token(emit_character_token(s, LESS_THAN_SIGN))

tag_open_state(self) ==
    LET s == consume(self)
        c == s.current_character
    IN  IF c # <<>>
        THEN CASE c[1] = EXCLAMATION_MARK -> switch_to(s, "MarkupDeclarationOpen")
               [] c[1] = SOLIDUS -> switch_to(s, "EndTagOpen")
               [] c[1] = QUESTION_MARK ->
                    create_new_comment_token(reconsume_in(s, "BogusComment"))
               [] OTHER ->
                    IF is_alphabetic(c[1])
                    THEN reconsume_in(create_new_start_tag_token(s), "TagName")
                    ELSE emit_character_token(reconsume_in(s, "Data"), LESS_THAN_SIGN)
        ELSE emit_end_of_file_token(emit_character_token(s, LESS_THAN_SIGN))

end_tag_open_state(self) ==
    LET s == consume(self)
        c == s.current_character
    IN  IF c # <<>>
        THEN CASE c[1] \in UpperAlpha \/ c[1] \in LowerAlpha ->
                    reconsume_in(create_new_end_tag_token(s), "TagName")
               [] c[1] = GREATER_THAN_SIGN -> switch_to(s, "Data")
               [] OTHER -> reconsume_in(create_new_comment_token(s), "BogusComment")
        ELSE emit_end_of_file_token(
                 emit_character_token(emit_character_token(s, LESS_THAN_SIGN), SOLIDUS))

tag_name_state(self) ==
    LET s == consume(self)
        c == s.current_character
    IN  IF c # <<>>
        THEN CASE c[1] \in Whitespace -> switch_to(s, "BeforeAttributeName")
               [] c[1] = SOLIDUS -> switch_to(s, "SelfClosingStartTag")
               [] c[1] = GREATER_THAN_SIGN -> emit_current_tag_token(switch_to(s, "Data"))
               [] c[1] \in UpperAlpha ->
                    append_character_to_current_tag_token(s, add_0x0020(c[1]))
               [] c[1] = NULL ->
                    append_character_to_current_tag_token(s, REPLACEMENT_CHARACTER)
               [] OTHER -> append_character_to_current_tag_token(s, c[1])
        ELSE emit_end_of_file_token(s)

before_attribute_name_state(self) ==
    LET s == consume(self)
        c == s.current_character
    IN  IF c # <<>>
        THEN CASE c[1] \in Whitespace -> s
               [] c[1] \in {SOLIDUS, GREATER_THAN_SIGN} ->
                    reconsume_in(s, "AfterAttributeName")
               [] c[1] = EQUALS_SIGN ->
                    switch_to(append_character_to_attribute_name(
                                  start_a_new_attribute(s), c[1]), "AttributeName")
               [] OTHER -> reconsume_in(start_a_new_attribute(s), "AttributeName")
        ELSE reconsume_in(s, "AfterAttributeName")

attribute_name_state(self) ==
    LET s == consume(self)
        c == s.current_character
    IN  IF c # <<>>
        THEN CASE c[1] \in Whitespace \/ c[1] \in {SOLIDUS, GREATER_THAN_SIGN} ->
                    reconsume_in(s, "AfterAttributeName")
               [] c[1] = EQUALS_SIGN -> switch_to(s, "BeforeAttributeValue")
               [] c[1] \in UpperAlpha ->
                    append_character_to_attribute_name(s, add_0x0020(c[1]))
               [] c[1] = NULL ->
                    append_character_to_attribute_name(s, REPLACEMENT_CHARACTER)
               [] OTHER -> append_character_to_attribute_name(s, c[1])
        ELSE reconsume_in(s, "AfterAttributeName")

after_attribute_name_state(self) ==
    LET s == consume(self)
        c == s.current_character
    IN  IF c # <<>>
        THEN CASE c[1] \in Whitespace -> s
               [] c[1] = SOLIDUS -> switch_to(s, "SelfClosingStartTag")
               [] c[1] = EQUALS_SIGN -> switch_to(s, "BeforeAttributeValue")
               [] c[1] = GREATER_THAN_SIGN -> emit_current_tag_token(switch_to(s, "Data"))
               [] OTHER -> reconsume_in(start_a_new_attribute(s), "AttributeName")
        ELSE emit_end_of_file_token(s)

before_attribute_value_state(self) ==
    LET s == consume(self)
        c == s.current_character
    IN  IF c # <<>>
        THEN CASE c[1] \in Whitespace -> s
               [] c[1] = QUOTATION_MARK -> switch_to(s, "AttributeValueDoubleQuoted")
               [] c[1] = APOSTROPHE -> switch_to(s, "AttributeValueSingleQuoted")
               [] c[1] = GREATER_THAN_SIGN -> emit_current_tag_token(switch_to(s, "Data"))
               [] OTHER -> reconsume_in(s, "AttributeValueUnquoted")
        ELSE reconsume_in(s, "AttributeValueUnquoted")

\* attribute_value_double_quoted_state that emits the tag before the
\* end-of-file token
attribute_value_double_quoted_state_emitting_tag(self) ==
    LET s == consume(self)
        c == s.current_character
    IN  IF c # <<>>
        THEN CASE c[1] = QUOTATION_MARK -> switch_to(s, "AfterAttributeValueQuoted")
               [] c[1] = AMPERSAND ->
                    switch_to(set_return_state(s, "AttributeValueDoubleQuoted"),
                              "CharacterReference")
               [] c[1] = NULL ->
                    append_character_to_attribute_value(s, REPLACEMENT_CHARACTER)
               [] OTHER -> append_character_to_attribute_value(s, c[1])
        ELSE emit_end_of_file_token(emit_current_tag_token(s))

attribute_value_double_quoted_state(self) ==
    LET s == consume(self)
        c == s.current_character
    IN  IF c # <<>>
        THEN CASE c[1] = QUOTATION_MARK -> switch_to(s, "AfterAttributeValueQuoted")
               [] c[1] = AMPERSAND ->
                    switch_to(set_return_state(s, "AttributeValueDoubleQuoted"),
                              "CharacterReference")
               [] c[1] = NULL ->
                    append_character_to_attribute_value(s, REPLACEMENT_CHARACTER)
               [] OTHER -> append_character_to_attribute_value(s, c[1])
        ELSE emit_end_of_file_token(s)

attribute_value_single_quoted_state(self) ==
    LET s == consume(self)
        c == s.current_character
    IN  IF c # <<>>
        THEN CASE c[1] = APOSTROPHE -> switch_to(s, "AfterAttributeValueQuoted")
               [] c[1] = AMPERSAND ->
                    switch_to(set_return_state(s, "AttributeValueSingleQuoted"),
                              "CharacterReference")
               [] c[1] = NULL ->
                    append_character_to_attribute_value(s, REPLACEMENT_CHARACTER)
               [] OTHER -> append_character_to_attribute_value(s, c[1])
        ELSE emit_end_of_file_token(s)

attribute_value_unquoted_state(self) ==
    LET s == consume(self)
        c == s.current_character
    IN  IF c # <<>>
        THEN CASE c[1] \in Whitespace -> switch_to(s, "BeforeAttributeName")
               [] c[1] = AMPERSAND ->
                    switch_to(set_return_state(s, "AttributeValueUnquoted"),
                              "CharacterReference")
               [] c[1] = GREATER_THAN_SIGN -> emit_current_tag_token(switch_to(s, "Data"))
               [] c[1] = NULL ->
                    append_character_to_attribute_value(s, REPLACEMENT_CHARACTER)
               [] OTHER -> append_character_to_attribute_value(s, c[1])
        ELSE emit_end_of_file_token(s)

after_attribute_value_quoted_state(self) ==
    LET s == consume(self)
        c == s.current_character
    IN  IF c # <<>>
        THEN CASE c[1] \in Whitespace -> switch_to(s, "BeforeAttributeName")
               [] c[1] = SOLIDUS -> switch_to(s, "SelfClosingStartTag")
               [] c[1] = GREATER_THAN_SIGN -> emit_current_tag_token(switch_to(s, "Data"))
               [] OTHER -> reconsume_in(s, "BeforeAttributeName")
        ELSE emit_end_of_file_token(s)

\* self_closing_start_tag_state leaving the self-closing flag as it is
self_closing_start_tag_state_without_flag(self) ==
    LET s == consume(self)
        c == s.current_character
    IN  IF c # <<>>
        THEN CASE c[1] = GREATER_THAN_SIGN -> emit_current_tag_token(switch_to(s, "Data"))
               [] OTHER -> reconsume_in(s, "BeforeAttributeName")
        ELSE emit_end_of_file_token(s)

self_closing_start_tag_state(self) ==
    LET s == consume(self)
        c == s.current_character
    IN  IF c # <<>>
        THEN CASE c[1] = GREATER_THAN_SIGN ->
                    emit_current_tag_token(switch_to(set_self_closing(s), "Data"))
               [] OTHER -> reconsume_in(s, "BeforeAttributeName")
        ELSE emit_end_of_file_token(s)

bogus_comment_state(self) ==
    LET s == consume(self)
        c == s.current_character
    IN  IF c # <<>>
        THEN CASE c[1] = GREATER_THAN_SIGN ->
                    emit_current_comment_token(switch_to(s, "Data"))
               [] c[1] = NULL ->
                    append_character_to_current_comment_token(s, REPLACEMENT_CHARACTER)
               [] OTHER -> append_character_to_current_comment_token(s, c[1])
        ELSE emit_current_comment_token(reconsume_in(s, "Data"))

----------------------------------------------------------------------------
(* mod.rs: the look-ahead helpers and the markup declaration open state. *)

\* vec!['D', 'O', 'C', 'T', 'Y', 'P', 'E']
goal_doctype == <<68, 79, 67, 84, 89, 80, 69>>

\* vec!['[', 'C', 'D', 'A', 'T', 'A', '[']
goal_cdata == <<91, 67, 68, 65, 84, 65, 91>>

\* vec!['P', 'U', 'B', 'L', 'I', 'C']
goal_public == <<80, 85, 66, 76, 73, 67>>

\* vec!['S', 'Y', 'S', 'T', 'E', 'M']
goal_system == <<83, 89, 83, 84, 69, 77>>

\* the two hyphens consume_double_hyphen counts
goal_double_hyphen == <<HYPHEN_MINUS, HYPHEN_MINUS>>

\* the loop of the consume_* helpers: consume while the scalar (upper-cased when
\* fold) equals goal[index]; the scalar that ends the loop has been consumed
RECURSIVE consume_goal(_, _, _, _)
consume_goal(self, goal, index, fold) ==
    IF index < Len(goal)
    THEN LET s == consume(self)
             c == s.current_character
         IN  IF c # <<>>
             THEN IF (IF fold THEN to_ascii_uppercase(c[1]) ELSE c[1]) = goal[index + 1]
                  THEN consume_goal(s, goal, index + 1, fold)
                  ELSE [self |-> s, index |-> index]
             ELSE [self |-> s, index |-> index]
    ELSE [self |-> self, index |-> index]

\* for c in ..: self.append_character_to_current_comment_token(c)
RECURSIVE append_characters_to_current_comment_token(_, _)
append_characters_to_current_comment_token(self, chars) ==
    IF chars = <<>>
    THEN self
    ELSE append_characters_to_current_comment_token(
             append_character_to_current_comment_token(self, Head(chars)), Tail(chars))

consume_double_hyphen(self) ==
    LET r == consume_goal(self, goal_double_hyphen, 0, FALSE)
    IN  IF r.index = 2
        THEN switch_to(create_new_comment_token(r.self), "CommentStart")
        ELSE reconsume_in(
                 append_characters_to_current_comment_token(
                     create_new_comment_token(r.self),
                     SubSeq(goal_double_hyphen, 1, r.index)),
                 "BogusComment")

consume_doctype(self) ==
    LET r == consume_goal(self, goal_doctype, 0, TRUE)
    IN  IF r.index = Len(goal_doctype)
        THEN switch_to(r.self, "DOCTYPE")
        ELSE reconsume_in(
                 append_characters_to_current_comment_token(
                     create_new_comment_token(r.self), SubSeq(goal_doctype, 1, r.index)),
                 "BogusComment")

consume_cdata(self) ==
    LET r == consume_goal(self, goal_cdata, 0, FALSE)
    IN  IF r.index = Len(goal_cdata)
        THEN switch_to(r.self, "CDATASection")
        ELSE reconsume_in(
                 append_characters_to_current_comment_token(
                     create_new_comment_token(r.self), SubSeq(goal_cdata, 1, r.index)),
                 "BogusComment")

consume_public_keyword(self) ==
    LET r == consume_goal(self, goal_public, 0, TRUE)
    IN  IF r.index = Len(goal_public)
        THEN switch_to(r.self, "AfterDOCTYPEPublicKeyword")
        ELSE reconsume_in(r.self, "BogusDOCTYPE")

consume_system_keyword(self) ==
    LET r == consume_goal(self, goal_system, 0, TRUE)
    IN  IF r.index = Len(goal_system)
        THEN switch_to(r.self, "AfterDOCTYPESystemKeyword")
        ELSE reconsume_in(r.self, "BogusDOCTYPE")

\* no else branch: at the end of the input the handler only consumes
markup_declaration_open_state(self) ==
    LET s == consume(self)
        c == s.current_character
    IN  IF c # <<>>
        THEN CASE c[1] = HYPHEN_MINUS -> consume_double_hyphen(reconsume_(s))
               [] c[1] = goal_doctype[1] -> consume_doctype(reconsume_(s))
               [] c[1] = LEFT_SQUARE_BRACKET -> consume_cdata(reconsume_(s))
               [] OTHER -> reconsume_in(create_new_comment_token(s), "BogusComment")
        ELSE s

----------------------------------------------------------------------------
(* mod.rs: the handlers of the comment states. *)

comment_start_state(self) ==
    LET s == consume(self)
        c == s.current_character
    IN  IF c # <<>>
        THEN CASE c[1] = HYPHEN_MINUS -> switch_to(s, "CommentStartDash")
               [] c[1] = GREATER_THAN_SIGN ->
                    emit_current_comment_token(switch_to(s, "Data"))
               [] OTHER -> reconsume_in(s, "Comment")
        ELSE reconsume_in(s, "Comment")

\* comment_start_dash_state that does not append the '-' it has consumed
comment_start_dash_state_dropping_dash(self) ==
    LET s == consume(self)
        c == s.current_character
    IN  IF c # <<>>
        THEN CASE c[1] = HYPHEN_MINUS -> switch_to(s, "CommentEnd")
               [] c[1] = GREATER_THAN_SIGN ->
                    emit_current_comment_token(switch_to(s, "Data"))
               [] OTHER -> reconsume_in(s, "Comment")
        ELSE emit_end_of_file_token(emit_current_comment_token(s))

comment_start_dash_state(self) ==
    LET s == consume(self)
        c == s.current_character
    IN  IF c # <<>>
        THEN CASE c[1] = HYPHEN_MINUS -> switch_to(s, "CommentEnd")
               [] c[1] = GREATER_THAN_SIGN ->
                    emit_current_comment_token(switch_to(s, "Data"))
               [] OTHER ->
                    reconsume_in(
                        append_character_to_current_comment_token(s, HYPHEN_MINUS),
                        "Comment")
        ELSE emit_end_of_file_token(emit_current_comment_token(s))


\* comment_state without the arm for U+0000
comment_state_keeping_null(self) ==
    LET s == consume(self)
        c == s.current_character
    IN  IF c # <<>>
        THEN CASE c[1] = LESS_THAN_SIGN ->
                    switch_to(append_character_to_current_comment_token(s, c[1]),
                              "CommentLessThanSign")
               [] c[1] = HYPHEN_MINUS -> switch_to(s, "CommentEndDash")
               [] OTHER -> append_character_to_current_comment_token(s, c[1])
        ELSE emit_end_of_file_token(emit_current_comment_token(s))

comment_state(self) ==
    LET s == consume(self)
        c == s.current_character
    IN  IF c # <<>>
        THEN CASE c[1] = LESS_THAN_SIGN ->
                    switch_to(append_character_to_current_comment_token(s, c[1]),
                              "CommentLessThanSign")
               [] c[1] = HYPHEN_MINUS -> switch_to(s, "CommentEndDash")
               [] c[1] = NULL ->
                    append_character_to_current_comment_token(s, REPLACEMENT_CHARACTER)
               [] OTHER -> append_character_to_current_comment_token(s, c[1])
        ELSE emit_end_of_file_token(emit_current_comment_token(s))

comment_end_state(self) ==
    LET s == consume(self)
        c == s.current_character
    IN  IF c # <<>>
        THEN CASE c[1] = GREATER_THAN_SIGN ->
                    emit_current_comment_token(switch_to(s, "Data"))
               [] c[1] = EXCLAMATION_MARK -> switch_to(s, "CommentEndBang")
               [] c[1] = HYPHEN_MINUS ->
                    append_character_to_current_comment_token(s, HYPHEN_MINUS)
               [] OTHER ->
                    reconsume_in(
                        append_characters_to_current_comment_token(
                            s, <<HYPHEN_MINUS, HYPHEN_MINUS>>),
                        "Comment")
        ELSE emit_end_of_file_token(emit_current_comment_token(s))

comment_end_bang_state(self) ==
    LET s == consume(self)
        c == s.current_character
    IN  IF c # <<>>
        THEN CASE c[1] = HYPHEN_MINUS ->
                    switch_to(
                        append_characters_to_current_comment_token(
                            s, <<HYPHEN_MINUS, HYPHEN_MINUS, EXCLAMATION_MARK>>),
                        "CommentEndDash")
               [] c[1] = GREATER_THAN_SIGN ->
                    emit_current_comment_token(switch_to(s, "Data"))
               [] OTHER ->
                    reconsume_in(
                        append_characters_to_current_comment_token(
                            s, <<HYPHEN_MINUS, HYPHEN_MINUS, EXCLAMATION_MARK>>),
                        "Comment")
        ELSE emit_end_of_file_token(emit_current_comment_token(s))

\* comment_less_than_sign_state that does not append the '!'
comment_less_than_sign_state_dropping_bang(self) ==
    LET s == consume(self)
        c == s.current_character
    IN  IF c # <<>>
        THEN CASE c[1] = EXCLAMATION_MARK -> switch_to(s, "CommentLessThanSignBang")
               [] c[1] = LESS_THAN_SIGN ->
                    append_character_to_current_comment_token(s, c[1])
               [] OTHER -> reconsume_in(s, "Comment")
        ELSE reconsume_in(s, "Comment")

comment_less_than_sign_state(self) ==
    LET s == consume(self)
        c == s.current_character
    IN  IF c # <<>>
        THEN CASE c[1] = EXCLAMATION_MARK ->
                    switch_to(append_character_to_current_comment_token(s, c[1]),
                              "CommentLessThanSignBang")
               [] c[1] = LESS_THAN_SIGN ->
                    append_character_to_current_comment_token(s, c[1])
               [] OTHER -> reconsume_in(s, "Comment")
        ELSE reconsume_in(s, "Comment")

comment_less_than_sign_bang_state(self) ==
    LET s == consume(self)
        c == s.current_character
    IN  IF c # <<>>
        THEN CASE c[1] = HYPHEN_MINUS -> switch_to(s, "CommentLessThanSignBangDash")
               [] OTHER -> reconsume_in(s, "Comment")
        ELSE reconsume_in(s, "Comment")

comment_less_than_sign_bang_dash_state(self) ==
    LET s == consume(self)
        c == s.current_character
    IN  IF c # <<>>
        THEN CASE c[1] = HYPHEN_MINUS -> switch_to(s, "CommentLessThanSignBangDashDash")
               [] OTHER -> reconsume_in(s, "CommentEndDash")
        ELSE reconsume_in(s, "CommentEndDash")

comment_less_than_sign_bang_dash_dash_state(self) ==
    LET s == consume(self)
        c == s.current_character
    IN  IF c # <<>>
        THEN CASE c[1] = GREATER_THAN_SIGN -> reconsume_in(s, "CommentEnd")
               [] OTHER -> reconsume_in(s, "CommentEnd")
        ELSE reconsume_in(s, "CommentEnd")

\* no else branch: at the end of the input the handler only consumes
comment_end_dash_state(self) ==
    LET s == consume(self)
        c == s.current_character
    IN  IF c # <<>>
        THEN CASE c[1] = HYPHEN_MINUS -> switch_to(s, "CommentEnd")
               [] OTHER ->
                    reconsume_in(
                        append_character_to_current_comment_token(s, HYPHEN_MINUS),
                        "Comment")
        ELSE s

----------------------------------------------------------------------------
(* mod.rs: the handlers of the DOCTYPE states. *)

doctype_state(self) ==
    LET s == consume(self)
        c == s.current_character
    IN  IF c # <<>>
        THEN CASE c[1] \in Whitespace -> switch_to(s, "BeforeDOCTYPEName")
               [] c[1] = GREATER_THAN_SIGN -> reconsume_in(s, "BeforeDOCTYPEName")
               [] OTHER -> reconsume_in(s, "BeforeDOCTYPEName")
        ELSE emit_end_of_file_token(
                 emit_current_token(
                     set_current_doctype_quirks_flag_to_on(create_new_doctype_token(s))))

before_doctype_name_state(self) ==
    LET s == consume(self)
        c == s.current_character
    IN  IF c # <<>>
        THEN CASE c[1] \in Whitespace -> s
               [] c[1] \in UpperAlpha ->
                    switch_to(
                        append_character_to_current_doctype_name(
                            create_new_doctype_token(s), to_ascii_lowercase(c[1])),
                        "DOCTYPEName")
               [] c[1] = NULL ->
                    switch_to(
                        append_character_to_current_doctype_name(
                            create_new_doctype_token(s), REPLACEMENT_CHARACTER),
                        "DOCTYPEName")
               [] c[1] = GREATER_THAN_SIGN ->
                    emit_current_token(
                        switch_to(
                            set_current_doctype_quirks_flag_to_on(
                                create_new_doctype_token(s)),
                            "Data"))
               [] OTHER ->
                    switch_to(
                        append_character_to_current_doctype_name(
                            create_new_doctype_token(s), c[1]),
                        "DOCTYPEName")
        ELSE emit_end_of_file_token(
                 emit_current_token(
                     set_current_doctype_quirks_flag_to_on(create_new_doctype_token(s))))

doctype_name_state(self) ==
    LET s == consume(self)
        c == s.current_character
    IN  IF c # <<>>
        THEN CASE c[1] \in Whitespace -> switch_to(s, "AfterDOCTYPEName")
               [] c[1] = GREATER_THAN_SIGN -> emit_current_token(switch_to(s, "Data"))
               [] c[1] \in UpperAlpha ->
                    append_character_to_current_doctype_name(s, to_ascii_lowercase(c[1]))
               [] c[1] = NULL ->
                    append_character_to_current_doctype_name(s, REPLACEMENT_CHARACTER)
               [] OTHER -> append_character_to_current_doctype_name(s, c[1])
        ELSE emit_end_of_file_token(
                 emit_current_token(set_current_doctype_quirks_flag_to_on(s)))

\* no else branch: at the end of the input the handler only consumes
after_doctype_name_state(self) ==
    LET s == consume(self)
        c == s.current_character
    IN  IF c # <<>>
        THEN CASE c[1] \in Whitespace -> s
               [] c[1] = GREATER_THAN_SIGN -> emit_current_token(switch_to(s, "Data"))
               [] to_ascii_uppercase(c[1]) = goal_public[1] ->
                    consume_public_keyword(reconsume_(s))
               [] to_ascii_uppercase(c[1]) = goal_system[1] ->
                    consume_system_keyword(reconsume_(s))
               [] OTHER ->
                    reconsume_in(set_current_doctype_quirks_flag_to_on(s), "BogusDOCTYPE")
        ELSE s

after_doctype_public_keyword_state(self) ==
    LET s == consume(self)
        c == s.current_character
    IN  IF c # <<>>
        THEN CASE c[1] \in Whitespace -> switch_to(s, "BeforeDOCTYPEPublicIdentifier")
               [] c[1] = QUOTATION_MARK ->
                    switch_to(set_current_doctype_public_identifier_to_empty_string(s),
                              "DOCTYPEPublicIdentifierDoubleQuoted")
               [] c[1] = APOSTROPHE ->
                    switch_to(set_current_doctype_public_identifier_to_empty_string(s),
                              "DOCTYPEPublicIdentifierSingleQuoted")
               [] c[1] = GREATER_THAN_SIGN ->
                    emit_current_token(
                        switch_to(set_current_doctype_quirks_flag_to_on(s), "Data"))
               [] OTHER ->
                    reconsume_in(set_current_doctype_quirks_flag_to_on(s), "BogusDOCTYPE")
        ELSE emit_end_of_file_token(
                 emit_current_token(set_current_doctype_quirks_flag_to_on(s)))

bogus_doctype_state(self) ==
    LET s == consume(self)
        c == s.current_character
    IN  IF c # <<>>
        THEN CASE c[1] = GREATER_THAN_SIGN -> emit_current_token(switch_to(s, "Data"))
               [] c[1] = NULL -> s
               [] OTHER -> s
        ELSE emit_end_of_file_token(emit_current_token(s))

before_doctype_public_identifier_state(self) ==
    LET s == consume(self)
        c == s.current_character
    IN  IF c # <<>>
        THEN CASE c[1] \in Whitespace -> s
               [] c[1] = QUOTATION_MARK ->
                    switch_to(set_current_doctype_public_identifier_to_empty_string(s),
                              "DOCTYPEPublicIdentifierDoubleQuoted")
               [] c[1] = APOSTROPHE ->
                    switch_to(set_current_doctype_public_identifier_to_empty_string(s),
                              "DOCTYPEPublicIdentifierSingleQuoted")
               [] c[1] = GREATER_THAN_SIGN ->
                    emit_current_token(
                        switch_to(set_current_doctype_quirks_flag_to_on(s), "Data"))
               [] OTHER ->
                    reconsume_in(set_current_doctype_quirks_flag_to_on(s), "BogusDOCTYPE")
        ELSE emit_end_of_file_token(
                 emit_current_token(set_current_doctype_quirks_flag_to_on(s)))

doctype_public_identifier_double_quoted_state(self) ==
    LET s == consume(self)
        c == s.current_character
    IN  IF c # <<>>
        THEN CASE c[1] = QUOTATION_MARK -> switch_to(s, "AfterDOCTYPEPublicIdentifier")
               [] c[1] = NULL ->
                    append_character_to_current_doctype_public_identifier(
                        s, REPLACEMENT_CHARACTER)
               [] c[1] = GREATER_THAN_SIGN ->
                    emit_current_token(
                        switch_to(set_current_doctype_quirks_flag_to_on(s), "Data"))
               [] OTHER -> append_character_to_current_doctype_public_identifier(s, c[1])
        ELSE emit_end_of_file_token(
                 emit_current_token(set_current_doctype_quirks_flag_to_on(s)))

doctype_public_identifier_single_quoted_state(self) ==
    LET s == consume(self)
        c == s.current_character
    IN  IF c # <<>>
        THEN CASE c[1] = APOSTROPHE -> switch_to(s, "AfterDOCTYPEPublicIdentifier")
               [] c[1] = NULL ->
                    append_character_to_current_doctype_public_identifier(
                        s, REPLACEMENT_CHARACTER)
               [] c[1] = GREATER_THAN_SIGN ->
                    emit_current_token(
                        switch_to(set_current_doctype_quirks_flag_to_on(s), "Data"))
               [] OTHER -> append_character_to_current_doctype_public_identifier(s, c[1])
        ELSE emit_end_of_file_token(
                 emit_current_token(set_current_doctype_quirks_flag_to_on(s)))

after_doctype_public_identifier_state(self) ==
    LET s == consume(self)
        c == s.current_character
    IN  IF c # <<>>
        THEN CASE c[1] \in Whitespace -> switch_to(s, "BetweenDOCTYPEPublicAndSystemIdentifiers")
               [] c[1] = GREATER_THAN_SIGN -> emit_current_token(switch_to(s, "Data"))
               [] c[1] = QUOTATION_MARK ->
                    switch_to(set_current_doctype_system_identifier_to_empty_string(s),
                              "DOCTYPESystemIdentifierDoubleQuoted")
               [] c[1] = APOSTROPHE ->
                    switch_to(set_current_doctype_system_identifier_to_empty_string(s),
                              "DOCTYPESystemIdentifierSingleQuoted")
               [] OTHER ->
                    reconsume_in(set_current_doctype_quirks_flag_to_on(s), "BogusDOCTYPE")
        ELSE emit_end_of_file_token(
                 emit_current_token(set_current_doctype_quirks_flag_to_on(s)))

between_doctype_public_and_system_identifiers_state(self) ==
    LET s == consume(self)
        c == s.current_character
    IN  IF c # <<>>
        THEN CASE c[1] \in Whitespace -> s
               [] c[1] = GREATER_THAN_SIGN -> emit_current_token(switch_to(s, "Data"))
               [] c[1] = QUOTATION_MARK ->
                    switch_to(set_current_doctype_system_identifier_to_empty_string(s),
                              "DOCTYPESystemIdentifierDoubleQuoted")
               [] c[1] = APOSTROPHE ->
                    switch_to(set_current_doctype_system_identifier_to_empty_string(s),
                              "DOCTYPESystemIdentifierSingleQuoted")
               [] OTHER ->
                    reconsume_in(set_current_doctype_quirks_flag_to_on(s), "BogusDOCTYPE")
        ELSE emit_end_of_file_token(
                 emit_current_token(set_current_doctype_quirks_flag_to_on(s)))

after_doctype_system_keyword_state(self) ==
    LET s == consume(self)
        c == s.current_character
    IN  IF c # <<>>
        THEN CASE c[1] \in Whitespace -> switch_to(s, "BeforeDOCTYPESystemIdentifier")
               [] c[1] = QUOTATION_MARK ->
                    switch_to(set_current_doctype_system_identifier_to_empty_string(s),
                              "DOCTYPESystemIdentifierDoubleQuoted")
               [] c[1] = APOSTROPHE ->
                    switch_to(set_current_doctype_system_identifier_to_empty_string(s),
                              "DOCTYPESystemIdentifierSingleQuoted")
               [] c[1] = GREATER_THAN_SIGN ->
                    emit_current_token(
                        switch_to(set_current_doctype_quirks_flag_to_on(s), "Data"))
               [] OTHER ->
                    reconsume_in(set_current_doctype_quirks_flag_to_on(s), "BogusDOCTYPE")
        ELSE emit_end_of_file_token(
                 emit_current_token(set_current_doctype_quirks_flag_to_on(s)))

before_doctype_system_identifier_state(self) ==
    LET s == consume(self)
        c == s.current_character
    IN  IF c # <<>>
        THEN CASE c[1] \in Whitespace -> s
               [] c[1] = QUOTATION_MARK ->
                    switch_to(set_current_doctype_system_identifier_to_empty_string(s),
                              "DOCTYPESystemIdentifierDoubleQuoted")
               [] c[1] = APOSTROPHE ->
                    switch_to(set_current_doctype_system_identifier_to_empty_string(s),
                              "DOCTYPESystemIdentifierSingleQuoted")
               [] c[1] = GREATER_THAN_SIGN ->
                    emit_current_token(
                        switch_to(set_current_doctype_quirks_flag_to_on(s), "Data"))
               [] OTHER ->
                    reconsume_in(set_current_doctype_quirks_flag_to_on(s), "BogusDOCTYPE")
        ELSE emit_end_of_file_token(
                 emit_current_token(set_current_doctype_quirks_flag_to_on(s)))

doctype_system_identifier_double_quoted_state(self) ==
    LET s == consume(self)
        c == s.current_character
    IN  IF c # <<>>
        THEN CASE c[1] = QUOTATION_MARK -> switch_to(s, "AfterDOCTYPESystemIdentifier")
               [] c[1] = NULL ->
                    append_character_to_current_doctype_system_identifier(
                        s, REPLACEMENT_CHARACTER)
               [] c[1] = GREATER_THAN_SIGN ->
                    emit_current_token(
                        switch_to(set_current_doctype_quirks_flag_to_on(s), "Data"))
               [] OTHER -> append_character_to_current_doctype_system_identifier(s, c[1])
        ELSE emit_end_of_file_token(
                 emit_current_token(set_current_doctype_quirks_flag_to_on(s)))

doctype_system_identifier_single_quoted_state(self) ==
    LET s == consume(self)
        c == s.current_character
    IN  IF c # <<>>
        THEN CASE c[1] = APOSTROPHE -> switch_to(s, "AfterDOCTYPESystemIdentifier")
               [] c[1] = NULL ->
                    append_character_to_current_doctype_system_identifier(
                        s, REPLACEMENT_CHARACTER)
               [] c[1] = GREATER_THAN_SIGN ->
                    emit_current_token(
                        switch_to(set_current_doctype_quirks_flag_to_on(s), "Data"))
               [] OTHER -> append_character_to_current_doctype_system_identifier(s, c[1])
        ELSE emit_end_of_file_token(
                 emit_current_token(set_current_doctype_quirks_flag_to_on(s)))

after_doctype_system_identifier_state(self) ==
    LET s == consume(self)
        c == s.current_character
    IN  IF c # <<>>
        THEN CASE c[1] \in Whitespace -> s
               [] c[1] = GREATER_THAN_SIGN -> emit_current_token(switch_to(s, "Data"))
               [] OTHER -> reconsume_in(s, "BogusDOCTYPE")
        ELSE emit_end_of_file_token(emit_current_token(s))

----------------------------------------------------------------------------
(* mod.rs: the handlers of the CDATA section states. *)

cdata_section_state(self) ==
    LET s == consume(self)
        c == s.current_character
    IN  IF c # <<>>
        THEN CASE c[1] = RIGHT_SQUARE_BRACKET -> switch_to(s, "CDATASectionBracket")
               [] OTHER -> emit_current_input_character(s)
        ELSE emit_end_of_file_token(s)

cdata_section_bracket_state(self) ==
    LET s == consume(self)
        c == s.current_character
    IN  IF c # <<>>
        THEN CASE c[1] = RIGHT_SQUARE_BRACKET -> switch_to(s, "CDATASectionEnd")
               [] OTHER ->
                    reconsume_in(emit_character_token(s, RIGHT_SQUARE_BRACKET),
                                 "CDATASection")
        ELSE reconsume_in(emit_character_token(s, RIGHT_SQUARE_BRACKET), "CDATASection")

cdata_section_end_state(self) ==
    LET s == consume(self)
        c == s.current_character
    IN  IF c # <<>>
        THEN CASE c[1] = RIGHT_SQUARE_BRACKET ->
                    emit_character_token(s, RIGHT_SQUARE_BRACKET)
               [] c[1] = GREATER_THAN_SIGN -> switch_to(s, "Data")
               [] OTHER ->
                    reconsume_in(
                        emit_character_token(
                            emit_character_token(s, RIGHT_SQUARE_BRACKET),
                            RIGHT_SQUARE_BRACKET),
                        "CDATASection")
        ELSE emit_end_of_file_token(
                 emit_character_token(
                     emit_character_token(s, RIGHT_SQUARE_BRACKET),
                     RIGHT_SQUARE_BRACKET))

----------------------------------------------------------------------------
(* crate::entity, which mod.rs imports and whose source is not among the    *)
(* files: the named reference table and the numeric reference normalizer,   *)
(* from sections 4.2 and 4.3 of the specification.                          *)

\* the glyphs used to write strings down, with their code points
Chr ==
    [g \in {"&", "#", ";", "<", ">", "=", "!", "-", "/", "?", "[", "]", " "} |->
        CASE g = "&" -> 38 [] g = "#" -> 35 [] g = ";" -> 59 [] g = "<" -> 60
          [] g = ">" -> 62 [] g = "=" -> 61 [] g = "!" -> 33 [] g = "-" -> 45
          [] g = "/" -> 47 [] g = "?" -> 63 [] g = "[" -> 91 [] g = "]" -> 93
          [] g = " " -> 32]
    @@ [g \in {"\"", "'"} |-> IF g = "\"" THEN 34 ELSE 39]
    @@ [g \in {"0", "1", "2", "3", "4", "5", "6", "7", "8", "9"} |->
        CASE g = "0" -> 48 [] g = "1" -> 49 [] g = "2" -> 50 [] g = "3" -> 51
          [] g = "4" -> 52 [] g = "5" -> 53 [] g = "6" -> 54 [] g = "7" -> 55
          [] g = "8" -> 56 [] g = "9" -> 57]
    @@ [g \in {"A", "B", "C", "D", "E", "F", "G", "H", "I", "J", "K", "L", "M",
               "N", "O", "P", "Q", "R", "S", "T", "U", "V", "W", "X", "Y", "Z"} |->
        CASE g = "A" -> 65 [] g = "B" -> 66 [] g = "C" -> 67 [] g = "D" -> 68
          [] g = "E" -> 69 [] g = "F" -> 70 [] g = "G" -> 71 [] g = "H" -> 72
          [] g = "I" -> 73 [] g = "J" -> 74 [] g = "K" -> 75 [] g = "L" -> 76
          [] g = "M" -> 77 [] g = "N" -> 78 [] g = "O" -> 79 [] g = "P" -> 80
          [] g = "Q" -> 81 [] g = "R" -> 82 [] g = "S" -> 83 [] g = "T" -> 84
          [] g = "U" -> 85 [] g = "V" -> 86 [] g = "W" -> 87 [] g = "X" -> 88
          [] g = "Y" -> 89 [] g = "Z" -> 90]
    @@ [g \in {"a", "b", "c", "d", "e", "f", "g", "h", "i", "j", "k", "l", "m",
               "n", "o", "p", "q", "r", "s", "t", "u", "v", "w", "x", "y", "z"} |->
        CASE g = "a" -> 97 [] g = "b" -> 98 [] g = "c" -> 99 [] g = "d" -> 100
          [] g = "e" -> 101 [] g = "f" -> 102 [] g = "g" -> 103 [] g = "h" -> 104
          [] g = "i" -> 105 [] g = "j" -> 106 [] g = "k" -> 107 [] g = "l" -> 108
          [] g = "m" -> 109 [] g = "n" -> 110 [] g = "o" -> 111 [] g = "p" -> 112
          [] g = "q" -> 113 [] g = "r" -> 114 [] g = "s" -> 115 [] g = "t" -> 116
          [] g = "u" -> 117 [] g = "v" -> 118 [] g = "w" -> 119 [] g = "x" -> 120
          [] g = "y" -> 121 [] g = "z" -> 122]

\* the string whose glyphs are given, as code points
Str(glyphs) == [i \in 1..Len(glyphs) |-> Chr[glyphs[i]]]

\* the rows of the named character reference table the model carries: the key
\* is what get_entity is given (the temporary buffer, '&' included)
EntityTable ==
    { [key |-> Str(<<"&", "a", "m", "p", ";">>), value |-> <<38>>],
      [key |-> Str(<<"&", "a", "m", "p">>), value |-> <<38>>],
      [key |-> Str(<<"&", "l", "t", ";">>), value |-> <<60>>],
      [key |-> Str(<<"&", "l", "t">>), value |-> <<60>>],
      [key |-> Str(<<"&", "n", "o", "t", ";">>), value |-> <<172>>],
      [key |-> Str(<<"&", "n", "o", "t">>), value |-> <<172>>],
      [key |-> Str(<<"&", "n", "o", "t", "i", "n", ";">>), value |-> <<8713>>],
      [key |-> Str(<<"&", "b", "n", "e", ";">>), value |-> <<61, 8421>>] }

\* get_entity(&str) -> Option<&str>
get_entity(buffer) ==
    IF \E row \in EntityTable : row.key = buffer
    THEN <<(CHOOSE row \in EntityTable : row.key = buffer).value>>
    ELSE <<>>

\* the longest identifier of the table, '&' and ';' included
MAX_NUMBER_OF_CHARACTERS_POSSIBLE == 33

\* the longest identifier of the table that has no ';', '&' not counted
MAX_NUMBER_OF_CHARACTERS_WITHOUT_SEMICOLON == 6

\* section 4.2: the minimum, 2
MIN_NUMBER_OF_CHARACTERS_POSSIBLE == 2

is_numeric_surrogate(code) == code \in 55296..57343

\* U+FDD0..U+FDEF and the last two code points of every plane
is_numeric_noncharacter(code) ==
    \/ code \in 64976..65007
    \/ (code % 65536) \in {65534, 65535} /\ code <= 1114111

\* a C0 control or a code point in U+007F..U+009F
is_numeric_control(code) == code \in 0..31 \/ code \in 127..159

\* ASCII whitespace: TAB, LF, FF, CR, SPACE
is_numeric_whitespace(code) == code \in {9, 10, 12, 13, 32}

\* the replacement table of the numeric character reference end state
replace_control(code) ==
    CASE code = 128 -> 8364 [] code = 130 -> 8218 [] code = 131 -> 402
      [] code = 132 -> 8222 [] code = 133 -> 8230 [] code = 134 -> 8224
      [] code = 135 -> 8225 [] code = 136 -> 710 [] code = 137 -> 8240
      [] code = 138 -> 352 [] code = 139 -> 8249 [] code = 140 -> 338
      [] code = 142 -> 381 [] code = 145 -> 8216 [] code = 146 -> 8217
      [] code = 147 -> 8220 [] code = 148 -> 8221 [] code = 149 -> 8226
      [] code = 150 -> 8211 [] code = 151 -> 8212 [] code = 152 -> 732
      [] code = 153 -> 8482 [] code = 154 -> 353 [] code = 155 -> 8250
      [] code = 156 -> 339 [] code = 158 -> 382 [] code = 159 -> 376
      [] OTHER -> code

----------------------------------------------------------------------------
(* mod.rs: the handlers of the character reference states. *)

\* char::len_utf8: the bytes of a scalar in a String
len_utf8(c) == IF c < 128 THEN 1 ELSE IF c < 2048 THEN 2 ELSE IF c < 65536 THEN 3 ELSE 4

\* String::len: the length in bytes
RECURSIVE str_len(_)
str_len(s) == IF s = <<>> THEN 0 ELSE len_utf8(Head(s)) + str_len(Tail(s))

\* str::is_char_boundary, which the slice &buffer[..max] panics without
is_char_boundary(s, n) == \E k \in 0..Len(s) : str_len(SubSeq(s, 1, k)) = n

\* &buffer[..max], for max on a boundary
str_prefix(s, n) == SubSeq(s, 1, CHOOSE k \in 0..Len(s) : str_len(SubSeq(s, 1, k)) = n)

\* for c in chars: self.tokens.push_back(Token::Char(c))
RECURSIVE push_back_chars(_, _)
push_back_chars(self, chars) ==
    IF chars = <<>>
    THEN self
    ELSE push_back_chars(emit_character_token(self, Head(chars)), Tail(chars))

\* for c in chars: self.append_character_to_attribute_value(c)
RECURSIVE append_characters_to_attribute_value(_, _)
append_characters_to_attribute_value(self, chars) ==
    IF chars = <<>>
    THEN self
    ELSE append_characters_to_attribute_value(
             append_character_to_attribute_value(self, Head(chars)), Tail(chars))

\* flush_temporary_buffer, then each scalar to the attribute value or to the queue
flush_code_points_consumed_as_a_character_reference(self) ==
    LET taken == [self EXCEPT !.temporary_buffer = <<>>]
    IN  IF self.temporary_buffer # <<>>
        THEN IF is_in_attribute_value(self)
             THEN append_characters_to_attribute_value(taken, self.temporary_buffer[1])
             ELSE push_back_chars(taken, self.temporary_buffer[1])
        ELSE taken

character_reference_state(self) ==
    LET s == consume(append_character_to_temporary_buffer(
                         set_temporary_buffer_to_empty_string(self), AMPERSAND))
        c == s.current_character
    IN  IF c # <<>>
        THEN CASE c[1] = NUMBER_SIGN ->
                    switch_to(append_character_to_temporary_buffer(s, c[1]),
                              "NumericCharacterReference")
               [] OTHER ->
                    IF is_alphanumeric(c[1])
                    THEN reconsume_in(s, "NamedCharacterReference")
                    ELSE reconsume_in_return_state(s)
        ELSE reconsume_in_return_state(s)

\* the while loop of named_character_reference_state
RECURSIVE consume_identifier(_, _)
consume_identifier(self, i) ==
    IF i < MAX_NUMBER_OF_CHARACTERS_POSSIBLE
    THEN LET s == consume(self)
             c == s.current_character
         IN  IF c # <<>>
             THEN IF c[1] = SEMICOLON
                  THEN append_character_to_temporary_buffer(s, c[1])
                  ELSE IF is_alphabetic(c[1])
                       THEN consume_identifier(
                                append_character_to_temporary_buffer(s, c[1]), i + 1)
                       ELSE s
             ELSE s
    ELSE self

\* the search for the longest prefix of the buffer that is in the table:
\* max as the loop leaves it, the expansion found, and whether a slice panicked
RECURSIVE longest_prefix(_, _)
longest_prefix(buffer, max) ==
    IF max > MIN_NUMBER_OF_CHARACTERS_POSSIBLE
    THEN IF ~is_char_boundary(buffer, max)
         THEN [max |-> max, found |-> <<>>, panic |-> TRUE]
         ELSE IF get_entity(str_prefix(buffer, max)) # <<>>
              THEN [max |-> max, found |-> get_entity(str_prefix(buffer, max))[1],
                    panic |-> FALSE]
              ELSE longest_prefix(buffer, max - 1)
    ELSE [max |-> max, found |-> <<>>, panic |-> FALSE]

\* unmatched_rest without the scalar at index 0
unmatched_rest_after_first(buffer, max) ==
    IF max = MIN_NUMBER_OF_CHARACTERS_POSSIBLE
    THEN Tail(buffer)
    ELSE SubSeq(buffer, max + 1, Len(buffer))

\* the scalars of the buffer at char index >= max (all of them when max is the minimum)
unmatched_rest(buffer, max) ==
    IF max = MIN_NUMBER_OF_CHARACTERS_POSSIBLE
    THEN buffer
    ELSE SubSeq(buffer, (IF max < Len(buffer) THEN max ELSE Len(buffer)) + 1, Len(buffer))

\* if self.current_character == Some(';') switch_to(state) else reconsume_in(state)
switch_or_reconsume_in(self, state) ==
    IF self.current_character = <<SEMICOLON>>
    THEN switch_to(self, state)
    ELSE reconsume_in(self, state)

\* named_character_reference_state that expands a name of the table in an
\* attribute value whatever follows it
named_character_reference_state_expanding_before_equals(self) ==
    LET s == consume_identifier(self, 0)
        buffer == get_temporary_buffer(s)
        is_in_attribute == is_in_attribute_value(s)
        return_state_ == s.return_state
        character_reference == get_entity(buffer)
    IN  IF character_reference # <<>>
        THEN IF is_in_attribute
             THEN switch_or_reconsume_in(
                      switch_to(
                          append_characters_to_attribute_value(s, character_reference[1]),
                          return_state_),
                      return_state_)
             ELSE IF ~is_in_attribute
                  THEN switch_or_reconsume_in(
                           push_back_chars(s, character_reference[1]), return_state_)
                  ELSE switch_or_reconsume_in(
                           flush_code_points_consumed_as_a_character_reference(s),
                           return_state_)
        ELSE IF is_in_attribute
             THEN switch_or_reconsume_in(
                      flush_code_points_consumed_as_a_character_reference(s),
                      return_state_)
             ELSE LET max0 == IF MAX_NUMBER_OF_CHARACTERS_WITHOUT_SEMICOLON + 1
                                     > str_len(buffer)
                              THEN str_len(buffer)
                              ELSE MAX_NUMBER_OF_CHARACTERS_WITHOUT_SEMICOLON + 1
                      r == longest_prefix(buffer, max0)
                      emitted == push_back_chars(push_back_chars(s, r.found),
                                                 unmatched_rest(buffer, r.max))
                  IN  IF r.panic
                      THEN [s EXCEPT !.panic = TRUE]
                      ELSE IF r.max # MIN_NUMBER_OF_CHARACTERS_POSSIBLE
                           THEN switch_or_reconsume_in(emitted, return_state_)
                           ELSE switch_or_reconsume_in(emitted, "AmbiguousAmpersand")

named_character_reference_state(self) ==
    LET s == consume_identifier(self, 0)
        buffer == get_temporary_buffer(s)
        is_in_attribute == is_in_attribute_value(s)
        return_state_ == s.return_state
        character_reference == get_entity(buffer)
    IN  IF character_reference # <<>>
        THEN IF /\ is_in_attribute
                /\ s.current_character # <<EQUALS_SIGN>>
                /\ ~(s.current_character # <<>> /\ is_alphanumeric(s.current_character[1]))
             THEN switch_or_reconsume_in(
                      switch_to(
                          append_characters_to_attribute_value(s, character_reference[1]),
                          return_state_),
                      return_state_)
             ELSE IF ~is_in_attribute
                  THEN switch_or_reconsume_in(
                           push_back_chars(s, character_reference[1]), return_state_)
                  ELSE switch_or_reconsume_in(
                           flush_code_points_consumed_as_a_character_reference(s),
                           return_state_)
        ELSE IF is_in_attribute
             THEN switch_or_reconsume_in(
                      flush_code_points_consumed_as_a_character_reference(s),
                      return_state_)
             ELSE LET max0 == IF MAX_NUMBER_OF_CHARACTERS_WITHOUT_SEMICOLON + 1
                                     > str_len(buffer)
                              THEN str_len(buffer)
                              ELSE MAX_NUMBER_OF_CHARACTERS_WITHOUT_SEMICOLON + 1
                      r == longest_prefix(buffer, max0)
                      emitted == push_back_chars(push_back_chars(s, r.found),
                                                 unmatched_rest(buffer, r.max))
                  IN  IF r.panic
                      THEN [s EXCEPT !.panic = TRUE]
                      ELSE IF r.max # MIN_NUMBER_OF_CHARACTERS_POSSIBLE
                           THEN switch_or_reconsume_in(emitted, return_state_)
                           ELSE switch_or_reconsume_in(emitted, "AmbiguousAmpersand")

ambiguous_ampersand_state(self) ==
    LET s == consume(self)
        c == s.current_character
    IN  IF c # <<>>
        THEN CASE c[1] \in LowerAlpha \/ c[1] \in UpperAlpha ->
                    IF is_in_attribute_value(s)
                    THEN append_character_to_attribute_value(s, c[1])
                    ELSE emit_character_token(s, c[1])
               [] c[1] = SEMICOLON -> reconsume_in_return_state(s)
               [] OTHER -> reconsume_in_return_state(s)
        ELSE reconsume_in_return_state(s)

numeric_character_reference_state(self) ==
    LET s == consume(set_character_reference_code_to_zero(self))
        c == s.current_character
    IN  IF c # <<>>
        THEN CASE c[1] \in {120, 88} ->
                    switch_to(append_character_to_temporary_buffer(s, c[1]),
                              "HexadecimalCharacterReferenceStart")
               [] OTHER -> reconsume_in(s, "DecimalCharacterReferenceStart")
        ELSE reconsume_in(s, "DecimalCharacterReferenceStart")

hexadecimal_character_reference_start_state(self) ==
    LET s == consume(self)
        c == s.current_character
    IN  IF c # <<>>
        THEN IF is_ascii_hexdigit(c[1])
             THEN reconsume_in(s, "HexadecimalCharacterReference")
             ELSE reconsume_in_return_state(
                      flush_code_points_consumed_as_a_character_reference(s))
        ELSE reconsume_in_return_state(s)

decimal_character_reference_start_state(self) ==
    LET s == consume(self)
        c == s.current_character
    IN  IF c # <<>>
        THEN IF is_ascii_digit(c[1])
             THEN reconsume_in(s, "DecimalCharacterReference")
             ELSE reconsume_in_return_state(
                      flush_code_points_consumed_as_a_character_reference(s))
        ELSE reconsume_in_return_state(
                 flush_code_points_consumed_as_a_character_reference(s))

\* self.character_reference_code = self.character_reference_code * base + digit:
\* u32 arithmetic, which panics on overflow in a build with overflow checks and
\* wraps in a build without
accumulate(self, base, digit, overflow_checks) ==
    LET x == self.character_reference_code
        lo == x.lo * base + digit
        hi == x.hi * base + (lo \div 65536)
    IN  IF hi < 65536
        THEN [self EXCEPT !.character_reference_code = [hi |-> hi, lo |-> lo % 65536]]
        ELSE IF overflow_checks
             THEN [self EXCEPT !.panic = TRUE]
             ELSE [self EXCEPT !.character_reference_code =
                                   [hi |-> hi % 65536, lo |-> lo % 65536]]

hexadecimal_character_reference_state(self, overflow_checks) ==
    LET s == consume(self)
        c == s.current_character
    IN  IF c # <<>>
        THEN IF is_ascii_digit(c[1])
             THEN accumulate(s, 16, (c[1] % 256) - 48, overflow_checks)
             ELSE IF is_ascii_hexdigit(c[1])
                  THEN IF c[1] >= 65 /\ c[1] <= 70
                       THEN accumulate(s, 16, (c[1] % 256) - 55, overflow_checks)
                       ELSE accumulate(s, 16, (c[1] % 256) - 87, overflow_checks)
                  ELSE IF c[1] = SEMICOLON
                       THEN switch_to(s, "NumericCharacterReferenceEnd")
                       ELSE reconsume_in(s, "NumericCharacterReferenceEnd")
        ELSE reconsume_in(s, "NumericCharacterReferenceEnd")

decimal_character_reference_state(self, overflow_checks) ==
    LET s == consume(self)
        c == s.current_character
    IN  IF c # <<>>
        THEN IF is_ascii_digit(c[1])
             THEN accumulate(s, 10, (c[1] % 256) - 48, overflow_checks)
             ELSE IF c[1] = SEMICOLON
                  THEN switch_to(s, "NumericCharacterReferenceEnd")
                  ELSE reconsume_in(s, "NumericCharacterReferenceEnd")
        ELSE reconsume_in(s, "NumericCharacterReferenceEnd")

\* the checks of numeric_character_reference_end_state, one after the other
normalized_code(x) ==
    LET c1 == IF x = u32(0) THEN 65533 ELSE IF x.hi > 16 THEN 65533 ELSE u32_value(x)
        c3 == IF is_numeric_surrogate(c1) THEN 65533 ELSE c1
        c4 == IF is_numeric_noncharacter(c3) THEN 65533 ELSE c3
    IN  IF c4 = 13 \/ (is_numeric_control(c4) /\ ~is_numeric_whitespace(c4))
        THEN replace_control(c4)
        ELSE c4

\* std::char::from_u32(code).unwrap_or(char::REPLACEMENT_CHARACTER)
from_u32_or_replacement(code) ==
    IF code > 1114111 \/ code \in 55296..57343 THEN REPLACEMENT_CHARACTER ELSE code

numeric_character_reference_end_state(self) ==
    LET code == normalized_code(self.character_reference_code)
        s == append_character_to_temporary_buffer(
                 set_temporary_buffer_to_empty_string(
                     [self EXCEPT !.character_reference_code = u32(code)]),
                 from_u32_or_replacement(code))
    IN  switch_to_return_state(flush_code_points_consumed_as_a_character_reference(s))

----------------------------------------------------------------------------
(* The inputs: beginnings that put the tokenizer in each family of states,
   each followed by every short tail over an alphabet that has one scalar of
   each class the handlers of that family tell apart. *)

\* the longest tail of scalars appended to a beginning
MaxTail == 2

\* the sequences over alphabet of length at most n
SeqsUpTo(alphabet, n) == UNION {[1..k -> alphabet] : k \in 0..n}

LT_BANG == Str(<<"<", "!">>)
COMMENT_OPEN == Str(<<"<", "!", "-", "-">>)
DOCTYPE_A == Str(<<"<", "!", "D", "O", "C", "T", "Y", "P", "E", " ", "a">>)
DOCTYPE_PUBLIC == DOCTYPE_A \o Str(<<" ", "P", "U", "B", "L", "I", "C">>)
DOCTYPE_SYSTEM == DOCTYPE_A \o Str(<<" ", "S", "Y", "S", "T", "E", "M">>)
CDATA_OPEN == Str(<<"<", "!", "[", "C", "D", "A", "T", "A", "[">>)
TAG_A == Str(<<"<", "a">>)
TAG_A_A == Str(<<"<", "a", " ", "a">>)

MarkupAlphabet ==
    {NULL, SPACE, EXCLAMATION_MARK, QUOTATION_MARK, AMPERSAND, HYPHEN_MINUS, SOLIDUS,
     LESS_THAN_SIGN, EQUALS_SIGN, GREATER_THAN_SIGN, 65, 97}

MarkupPrefixes ==
    { <<>>,
      TAG_A,
      TAG_A_A,
      TAG_A_A \o Str(<<" ", "a">>),
      TAG_A_A \o Str(<<"=">>),
      TAG_A_A \o Str(<<"=", "\"">>),
      TAG_A_A \o Str(<<"=", "'">>),
      TAG_A \o Str(<<">", "<", "/">>),
      LT_BANG,
      LT_BANG \o Str(<<"D", "O">>),
      COMMENT_OPEN,
      COMMENT_OPEN \o Str(<<"a">>),
      COMMENT_OPEN \o Str(<<"a", "<", "!">>),
      COMMENT_OPEN \o Str(<<"a", "-", "-">>),
      Str(<<"<", "!", "D", "O", "C", "T", "Y", "P", "E">>),
      DOCTYPE_A,
      DOCTYPE_PUBLIC,
      DOCTYPE_PUBLIC \o Str(<<"'">>),
      DOCTYPE_PUBLIC \o Str(<<"\"", "a", "\"">>),
      DOCTYPE_PUBLIC \o Str(<<"\"", "a", "\"", " ", "'">>),
      DOCTYPE_SYSTEM,
      DOCTYPE_SYSTEM \o Str(<<"'">>),
      DOCTYPE_SYSTEM \o Str(<<"\"", "a", "\"">>),
      CDATA_OPEN,
      CDATA_OPEN \o Str(<<"a", "]", "]">>) }

MarkupInputs == {p \o t : p \in MarkupPrefixes, t \in SeqsUpTo(MarkupAlphabet, MaxTail)}

ReferenceAlphabet ==
    {SPACE, NUMBER_SIGN, AMPERSAND, 49, SEMICOLON, LESS_THAN_SIGN, EQUALS_SIGN, 97, 120}

ReferencePrefixes ==
    { Str(<<"&">>),
      Str(<<"&", "#">>),
      Str(<<"&", "#", "x">>),
      Str(<<"&", "#", "0">>),
      Str(<<"&", "#", "x", "8", "0">>),
      Str(<<"&", "#", "x", "D", "8", "0", "0">>),
      Str(<<"&", "#", "x", "F", "F", "F", "F", "F", "F", "F">>),
      Str(<<"&", "#", "4", "2", "9", "4", "9", "6", "7", "2", "9">>),
      Str(<<"&", "a", "m", "p">>),
      Str(<<"&", "n", "o", "t">>),
      Str(<<"&", "n", "o", "t", "i", "n">>),
      Str(<<"&", "b", "n", "e">>),
      TAG_A_A \o Str(<<"=", "\"", "&">>),
      TAG_A_A \o Str(<<"=", "'", "&", "#">>),
      TAG_A_A \o Str(<<"=", "&", "a", "m", "p">>),
      TAG_A_A \o Str(<<"=", "\"", "&", "n", "o", "t">>) }

ReferenceInputs ==
    {p \o t : p \in ReferencePrefixes, t \in SeqsUpTo(ReferenceAlphabet, MaxTail)}

(* Reference runs: up to MaxReferences character references one after the
   other in the data state, each of them complete with its semicolon. *)
MaxReferences == 4

REFERENCE_AMP == Str(<<"&", "a", "m", "p", ";">>)
REFERENCE_65 == Str(<<"&", "#", "6", "5", ";">>)
REFERENCE_X4A == Str(<<"&", "#", "x", "4", "A", ";">>)
REFERENCE_BOGUS == Str(<<"&", "b", "o", "g", "u", "s", ";">>)

ReferencePieces == {REFERENCE_AMP, REFERENCE_65, REFERENCE_X4A, REFERENCE_BOGUS}

ReferenceRuns == SeqsUpTo(ReferencePieces, MaxReferences)

RECURSIVE Concat(_)
Concat(ss) == IF ss = <<>> THEN <<>> ELSE Head(ss) \o Concat(Tail(ss))

ReferenceRunInputs == {Concat(run) : run \in ReferenceRuns}

(* Names with a known prefix: a name of the table that needs no semicolon,
   up to MaxNameLetters more letters, and what stops the name. *)
MaxNameLetters == 2

KnownNames == {Str(<<"&", "n", "o", "t">>), Str(<<"&", "a", "m", "p">>)}

NameLetters == {105, 110, 233}

NameStops == {<<>>, <<SEMICOLON>>, <<SPACE>>, <<49>>}

PrefixedNames ==
    [known : KnownNames, letters : SeqsUpTo(NameLetters, MaxNameLetters), stop : NameStops]

SerializePrefixedName(n) == n.known \o n.letters \o n.stop

PrefixedNameInputs == {SerializePrefixedName(n) : n \in PrefixedNames}

(* A lone ampersand in an attribute value: <a a=q&nq> for a quote q (none for
   the unquoted value) and the scalar n after the '&' (none when the quote
   or '>' follows at once). *)
AmpersandQuotes == {<<>>, <<QUOTATION_MARK>>, <<APOSTROPHE>>}

AmpersandNexts == {<<>>, <<SPACE>>, <<SEMICOLON>>, <<EQUALS_SIGN>>}

AmpersandValues == [quote : AmpersandQuotes, next : AmpersandNexts]

SerializeAmpersandValue(v) ==
    TAG_A_A \o <<EQUALS_SIGN>> \o v.quote \o <<AMPERSAND>> \o v.next \o v.quote
    \o <<GREATER_THAN_SIGN>>

AmpersandValueInputs == {SerializeAmpersandValue(v) : v \in AmpersandValues}

(* Numeric references in the data state: &# or &#x, the digits of a value,
   and what ends them. The values have one of each class the end state tells
   apart; the long references have a value of 2^32 or more. *)
NumericValues ==
    {0, 65, 128, 233, 55296, 57343, 64976, 65533, 65534, 1114109, 1114111, 1114112}

NumericStops == {<<>>, <<SEMICOLON>>}

\* the digit d of a radix up to 16 as a scalar, upper case
DigitChar(d) == IF d < 10 THEN 48 + d ELSE 55 + d

\* the digits of v in the radix, most significant first
RECURSIVE Digits(_, _)
Digits(v, radix) ==
    IF v < radix
    THEN <<DigitChar(v)>>
    ELSE Digits(v \div radix, radix) \o <<DigitChar(v % radix)>>

NumericReferences == [value : NumericValues, radix : {10, 16}, stop : NumericStops]

NUMERIC_OPEN == Str(<<"&", "#">>)

SerializeDigits(digits, radix, stop) ==
    NUMERIC_OPEN \o (IF radix = 16 THEN Str(<<"x">>) ELSE <<>>) \o digits \o stop

SerializeNumericReference(n) == SerializeDigits(Digits(n.value, n.radix), n.radix, n.stop)

NumericReferenceInputs == {SerializeNumericReference(n) : n \in NumericReferences}

\* 0x100000041 and 0xFFFFFFFFF; 4294967361 (2^32 + 65) and 9999999999
LongDigits ==
    { [digits |-> Str(<<"1", "0", "0", "0", "0", "0", "0", "4", "1">>), radix |-> 16],
      [digits |-> Str(<<"F", "F", "F", "F", "F", "F", "F", "F", "F">>), radix |-> 16],
      [digits |-> Str(<<"4", "2", "9", "4", "9", "6", "7", "3", "6", "1">>), radix |-> 10],
      [digits |-> Str(<<"9", "9", "9", "9", "9", "9", "9", "9", "9", "9">>), radix |-> 10] }

LongReferenceInputs ==
    {SerializeDigits(l.digits, l.radix, stop) : l \in LongDigits, stop \in NumericStops}

(* Script elements: <script>, a content, </script>, and what follows. *)
SCRIPT == Str(<<"s", "c", "r", "i", "p", "t">>)
SCRIPT_OPEN == <<LESS_THAN_SIGN>> \o SCRIPT \o <<GREATER_THAN_SIGN>>
SCRIPT_CLOSE == <<LESS_THAN_SIGN, SOLIDUS>> \o SCRIPT \o <<GREATER_THAN_SIGN>>

\* var x = "
VAR_X == Str(<<"v", "a", "r", " ", "x", " ", "=", " ", "\"">>)

ScriptContents ==
    { VAR_X,
      <<>>,
      Str(<<"x">>),
      Str(<<"1", "<", "2">>),
      Str(<<"<", "b", ">">>),
      Str(<<"a", "<", "b">>),
      Str(<<"<", "/", "b", ">">>),
      Str(<<"<", "!", "-", "-", "x", "-", "-", ">">>) }

\* ";</script>
ScriptRests == {<<>>, Str(<<"\"", ";">>) \o SCRIPT_CLOSE}

ScriptElements == [content : ScriptContents, rest : ScriptRests]

SerializeScriptElement(e) == SCRIPT_OPEN \o e.content \o SCRIPT_CLOSE \o e.rest

ScriptInputs == {SerializeScriptElement(e) : e \in ScriptElements}

(* Tags closed with > or with />: a name, attributes or none, a space or none
   before the close. After an unquoted value the space is there, without it
   the '/' would be of the value. *)
ClosedTagNames == {Str(<<"i", "n", "p", "u", "t">>), Str(<<"B", "r">>)}

ClosedTagAttributes ==
    { <<>>,
      Str(<<" ", "a">>),
      Str(<<" ", "a", "=", "\"", "x", "/", "\"">>),
      Str(<<" ", "a", "=", "x">>),
      Str(<<" ", "a", " ", "b", "=", "'", "'">>) }

ClosedTags ==
    {tag \in [name : ClosedTagNames, attributes : ClosedTagAttributes,
              space : {<<>>, <<SPACE>>}, self_closing : BOOLEAN] :
        tag.attributes = Str(<<" ", "a", "=", "x">>) /\ tag.self_closing
            => tag.space = <<SPACE>>}

SerializeClosedTag(tag) ==
    <<LESS_THAN_SIGN>> \o tag.name \o tag.attributes \o tag.space
    \o (IF tag.self_closing THEN <<SOLIDUS>> ELSE <<>>) \o <<GREATER_THAN_SIGN>>

ClosedTagInputs == {SerializeClosedTag(tag) : tag \in ClosedTags}

(* DOCTYPE spellings: "<!", a spelling of the seven letters in some case,
   and " a>". *)
DoctypeSpellings ==
    { Str(<<"D", "O", "C", "T", "Y", "P", "E">>),
      Str(<<"D", "o", "c", "T", "y", "p", "e">>),
      Str(<<"D", "o", "c", "t", "y", "p", "e">>),
      Str(<<"d", "o", "c", "t", "y", "p", "e">>),
      Str(<<"d", "O", "C", "T", "Y", "P", "E">>),
      Str(<<"d", "o", "c", "T", "Y", "P", "e">>) }

SerializeDoctypeSpelling(spelling) == LT_BANG \o spelling \o Str(<<" ", "a", ">">>)

DoctypeSpellingInputs == {SerializeDoctypeSpelling(s) : s \in DoctypeSpellings}

(* DOCTYPEs with identifiers: <!DOCTYPE a>, with a public identifier, with a
   public and a system identifier, with a system identifier, and with the
   keyword followed by an identifier that has no quote. *)
DoctypeIdentifiers == {<<>>, Str(<<"x">>)}

DoctypeQuotes == {<<QUOTATION_MARK>>, <<APOSTROPHE>>}

DoctypeKinds == {"none", "public", "public system", "system", "public unquoted",
                 "system unquoted"}

DoctypesWithIdentifiers ==
    {d \in [kind : DoctypeKinds, quote : DoctypeQuotes,
            public : DoctypeIdentifiers, system : DoctypeIdentifiers] :
        /\ d.kind \in {"none", "public unquoted", "system unquoted"} =>
               d.quote = <<QUOTATION_MARK>> /\ d.public = <<>> /\ d.system = <<>>
        /\ d.kind = "public" => d.system = <<>>
        /\ d.kind = "system" => d.public = <<>>}

SerializeDoctypeWithIdentifiers(d) ==
    (CASE d.kind = "none" -> DOCTYPE_A
       [] d.kind = "public" -> DOCTYPE_PUBLIC \o <<SPACE>> \o d.quote \o d.public \o d.quote
       [] d.kind = "public system" ->
            DOCTYPE_PUBLIC \o <<SPACE>> \o d.quote \o d.public \o d.quote
            \o <<SPACE>> \o d.quote \o d.system \o d.quote
       [] d.kind = "system" -> DOCTYPE_SYSTEM \o <<SPACE>> \o d.quote \o d.system \o d.quote
       [] d.kind = "public unquoted" -> DOCTYPE_PUBLIC \o Str(<<" ", "x">>)
       [] d.kind = "system unquoted" -> DOCTYPE_SYSTEM \o Str(<<" ", "x">>))
    \o <<GREATER_THAN_SIGN>>

DoctypeWithIdentifiersInputs ==
    {SerializeDoctypeWithIdentifiers(d) : d \in DoctypesWithIdentifiers}

(* Tag runs: up to MaxPieces pieces one after the other, each a start tag, an
   end tag, a self-closing start or end tag, a comment or a letter. *)
MaxPieces == 3

TagPieces ==
    { Str(<<"<", "a", ">">>),
      Str(<<"<", "/", "a", ">">>),
      Str(<<"<", "/", "b", ">">>),
      Str(<<"<", "b", "/", ">">>),
      Str(<<"<", "/", "a", "/", ">">>),
      Str(<<"<", "!", "-", "-", "-", "-", ">">>),
      Str(<<"x">>) }

TagRunInputs == {Concat(run) : run \in SeqsUpTo(TagPieces, MaxPieces)}

(* References in an attribute value: <a href=q, a name of the table without
   its semicolon, what follows it, q and >, for a quote q or none. *)
NamesWithoutSemicolon ==
    {Str(<<"&", "a", "m", "p">>), Str(<<"&", "n", "o", "t">>), Str(<<"&", "l", "t">>)}

NameFollowers ==
    {Str(<<"=", "1">>), Str(<<"=">>), Str(<<"1">>), Str(<<"x">>), Str(<<"Z", "=">>),
     Str(<<"9", ";">>)}

AttributeReferences ==
    [name : NamesWithoutSemicolon, follower : NameFollowers, quote : AmpersandQuotes]

A_HREF == Str(<<"<", "a", " ", "h", "r", "e", "f", "=">>)

SerializeAttributeReference(r) ==
    A_HREF \o r.quote \o r.name \o r.follower \o r.quote \o <<GREATER_THAN_SIGN>>

AttributeReferenceInputs ==
    {SerializeAttributeReference(r) : r \in AttributeReferences}

(* Words after the name of a DOCTYPE: <!DOCTYPE a, a space, the word and >.
   The keywords are the words that match PUBLIC or SYSTEM whatever the case;
   the other words match a part of one of them, or nothing. *)
DoctypeKeywords ==
    { Str(<<"P", "U", "B", "L", "I", "C">>), Str(<<"p", "u", "b", "l", "i", "c">>),
      Str(<<"S", "Y", "S", "T", "E", "M">>), Str(<<"S", "y", "s", "t", "e", "m">>) }

DoctypeOtherWords ==
    { Str(<<"P", "U", "B", "L", "I", "X">>), Str(<<"S", "Y", "S">>),
      Str(<<"P">>), Str(<<"s">>), Str(<<"p", "u", "b", "l", "i">>),
      Str(<<"S", "Y", "S", "T", "E", "N">>), Str(<<"X">>), Str(<<"x", "y", "z">>),
      Str(<<"U", "B", "L", "I", "C">>), Str(<<"1">>) }

SerializeDoctypeWord(word) ==
    DOCTYPE_A \o <<SPACE>> \o word \o <<GREATER_THAN_SIGN>>

DoctypeWordInputs ==
    {SerializeDoctypeWord(w) : w \in DoctypeKeywords \cup DoctypeOtherWords}

(* Declarations that begin like --, DOCTYPE or [CDATA[ and are none of them:
   <!, the word, and > or the end of the input. *)
PartialDeclarationWords ==
    { Str(<<"-">>), Str(<<"-", "x">>),
      Str(<<"D">>), Str(<<"D", "O">>), Str(<<"D", "x">>), Str(<<"D", "o", "c">>),
      Str(<<"D", "O", "c", "x">>), Str(<<"D", "O", "C", "T", "Y", "P", "X">>),
      Str(<<"D", "o", "c", "t", "y", "p", " ", "a">>),
      Str(<<"[">>), Str(<<"[", "C", "D", "x">>), Str(<<"[", "C", "D", "A", "T", "A">>),
      Str(<<"[", "c", "d", "a", "t", "a", "[">>) }

PartialDeclarations == [word : PartialDeclarationWords, close : {<<>>, <<GREATER_THAN_SIGN>>}]

SerializePartialDeclaration(d) == LT_BANG \o d.word \o d.close

PartialDeclarationInputs ==
    {SerializePartialDeclaration(d) : d \in PartialDeclarations}

(* One scalar after '<': <, the scalar, and >. The scalars are ASCII letters,
   a digit, punctuation, and letters that are not ASCII. *)
AfterLessThanSign == {97, 90, 49, SPACE, EQUALS_SIGN, HYPHEN_MINUS, GREATER_THAN_SIGN, 170, 233}

AfterLessThanSignInputs ==
    {<<LESS_THAN_SIGN, c, GREATER_THAN_SIGN>> : c \in AfterLessThanSign}

(* Text: the inputs that have neither '<' nor '&'. *)

\* the longest text
MaxText == 3

TextAlphabet == {NULL, SPACE, GREATER_THAN_SIGN, 65, 233, REPLACEMENT_CHARACTER}

TextInputs == SeqsUpTo(TextAlphabet, MaxText)

(* Documents: <!DOCTYPE html> and then a properly nested sequence of start
   tags, end tags and text. *)

\* the most constructs after the DOCTYPE
MaxItems == 4

DocumentNames == {Str(<<"p">>), Str(<<"H", "1">>)}

DocumentText == {NULL, 72}

DocumentItems ==
    {[kind |-> "start", name |-> n] : n \in DocumentNames}
    \cup {[kind |-> "end", name |-> n] : n \in DocumentNames}
    \cup {[kind |-> "text", char |-> c] : c \in DocumentText}

\* every end tag closes the start tag opened last and still open, and no start
\* tag is left open
RECURSIVE ProperlyNested(_, _)
ProperlyNested(items, open) ==
    IF items = <<>> THEN open = <<>>
    ELSE LET item == Head(items)
         IN  CASE item.kind = "start" ->
                      ProperlyNested(Tail(items), Append(open, item.name))
               [] item.kind = "end" ->
                      /\ open # <<>>
                      /\ open[Len(open)] = item.name
                      /\ ProperlyNested(Tail(items), SubSeq(open, 1, Len(open) - 1))
               [] OTHER -> ProperlyNested(Tail(items), open)

Documents == {d \in SeqsUpTo(DocumentItems, MaxItems) : ProperlyNested(d, <<>>)}

SerializeItem(item) ==
    CASE item.kind = "start" -> <<LESS_THAN_SIGN>> \o item.name \o <<GREATER_THAN_SIGN>>
      [] item.kind = "end" ->
             <<LESS_THAN_SIGN, SOLIDUS>> \o item.name \o <<GREATER_THAN_SIGN>>
      [] OTHER -> <<item.char>>

RECURSIVE SerializeItems(_)
SerializeItems(items) ==
    IF items = <<>> THEN <<>>
    ELSE SerializeItem(Head(items)) \o SerializeItems(Tail(items))

DOCTYPE_HTML ==
    Str(<<"<", "!", "D", "O", "C", "T", "Y", "P", "E", " ", "h", "t", "m", "l", ">">>)

SerializeDocument(d) == DOCTYPE_HTML \o SerializeItems(d)

DocumentInputs == {SerializeDocument(d) : d \in Documents}

(* Start tags written as <name a1="v1" a2='v2' a3=v3 a4>. *)

AttributeTagNames == {Str(<<"a">>), Str(<<"A", "b">>)}

FirstAttributeNames == {Str(<<"a">>), Str(<<"X", "y">>)}

AttributeValues == {<<>>, Str(<<"x">>), Str(<<"/", "A">>), <<NULL>>}

AttributeTags ==
    [name : AttributeTagNames, a1 : FirstAttributeNames,
     v1 : AttributeValues, v2 : AttributeValues, v3 : AttributeValues]

SerializeAttributeTag(tag) ==
    <<LESS_THAN_SIGN>> \o tag.name
    \o <<SPACE>> \o tag.a1 \o <<EQUALS_SIGN, QUOTATION_MARK>> \o tag.v1 \o <<QUOTATION_MARK>>
    \o <<SPACE, 98, EQUALS_SIGN, APOSTROPHE>> \o tag.v2 \o <<APOSTROPHE>>
    \o <<SPACE, 99, EQUALS_SIGN>> \o tag.v3
    \o <<SPACE, 100, GREATER_THAN_SIGN>>

AttributeTagInputs == {SerializeAttributeTag(tag) : tag \in AttributeTags}

(* Comments written as <!-- d -->, the form Display gives Token::Comment. *)

\* the longest comment data
MaxCommentData == 4

CommentAlphabet ==
    {NULL, EXCLAMATION_MARK, HYPHEN_MINUS, LESS_THAN_SIGN, GREATER_THAN_SIGN, 97}

\* sub occurs in s
Contains(s, sub) ==
    \E i \in 1..(Len(s) - Len(sub) + 1) : SubSeq(s, i, i + Len(sub) - 1) = sub

COMMENT_CLOSE == Str(<<"-", "-", ">">>)

\* the data that do not contain -->
CommentData ==
    {d \in SeqsUpTo(CommentAlphabet, MaxCommentData) : ~Contains(d, COMMENT_CLOSE)}

\* write!(f, "<!--{}-->", comment)
SerializeComment(d) == COMMENT_OPEN \o d \o COMMENT_CLOSE

CommentInputs == {SerializeComment(d) : d \in CommentData}

(* Comments with <!-- inside: <!-- x <!-- y -->, x and y of ASCII letters. *)

\* the longest x and the longest y
MaxLetters == 2

LetterStrings == SeqsUpTo({66, 97}, MaxLetters)

NestedComments == [x : LetterStrings, y : LetterStrings]

SerializeNestedComment(n) == SerializeComment(n.x \o COMMENT_OPEN \o n.y)

NestedCommentInputs == {SerializeNestedComment(n) : n \in NestedComments}

Inputs ==
    MarkupInputs \cup ReferenceInputs \cup TextInputs \cup DocumentInputs
    \cup AttributeTagInputs \cup CommentInputs \cup NestedCommentInputs
    \cup ReferenceRunInputs \cup PrefixedNameInputs \cup AmpersandValueInputs
    \cup NumericReferenceInputs \cup LongReferenceInputs \cup ScriptInputs
    \cup ClosedTagInputs \cup DoctypeSpellingInputs
    \cup DoctypeWithIdentifiersInputs \cup TagRunInputs
    \cup AttributeReferenceInputs \cup DoctypeWordInputs \cup PartialDeclarationInputs
    \cup AfterLessThanSignInputs

----------------------------------------------------------------------------
(* The driver: Tokenizer::new, scan and next_token. *)

\* self.tokens.back() == Some(&Token::EOF)
LastIsEOF == tokens # <<>> /\ tokens[Len(tokens)] = EOF

\* Tokenizer::new: the fields as constructed, and scan() about to run
Init ==
    /\ input \in Inputs
    /\ html = input
    /\ tokens = <<>>
    /\ current_state = "Data"
    /\ return_state = "Data"
    /\ current_token = <<>>
    /\ current_character = <<>>
    /\ temporary_buffer = <<>>
    /\ character_reference_code = u32(0)
    /\ open_tags = <<>>
    /\ reconsume = FALSE
    /\ consume_log = NothingConsumed
    /\ pc = "new"
    /\ returned = <<>>
    /\ scan_calls = 0

\* one turn of the loop of scan: the arm for state calls its handler, whose
\* result is next. A handler that panics ends the program. A handler that
\* returns with every field as it found it will be called again with the same
\* fields, and again: the loop never ends, which pc = "hang" records.
Dispatch(state, next) ==
    /\ pc \in {"new", "scan"}
    /\ ~LastIsEOF
    /\ current_state = state
    /\ LET r == next
       IN  IF r.panic
           THEN /\ pc' = "panic"
                /\ UNCHANGED <<html, tokens, current_state, return_state, current_token,
                               current_character, temporary_buffer,
                               character_reference_code, open_tags, reconsume, consume_log>>
           ELSE IF [r EXCEPT !.consume_log = consume_log] = Self
           THEN /\ pc' = "hang"
                /\ consume_log' = r.consume_log
                /\ UNCHANGED <<html, tokens, current_state, return_state, current_token,
                               current_character, temporary_buffer,
                               character_reference_code, open_tags, reconsume>>
           ELSE /\ pc' = pc
                /\ html' = r.html
                /\ tokens' = r.tokens
                /\ current_state' = r.current_state
                /\ return_state' = r.return_state
                /\ current_token' = r.current_token
                /\ current_character' = r.current_character
                /\ temporary_buffer' = r.temporary_buffer
                /\ character_reference_code' = r.character_reference_code
                /\ open_tags' = r.open_tags
                /\ reconsume' = r.reconsume
                /\ consume_log' = r.consume_log
    /\ UNCHANGED <<input, returned, scan_calls>>

Data == Dispatch("Data", data_state(Self))
TagOpen == Dispatch("TagOpen", tag_open_state(Self))
EndTagOpen == Dispatch("EndTagOpen", end_tag_open_state(Self))
TagName == Dispatch("TagName", tag_name_state(Self))
BeforeAttributeName == Dispatch("BeforeAttributeName", before_attribute_name_state(Self))
AttributeName == Dispatch("AttributeName", attribute_name_state(Self))
AfterAttributeName == Dispatch("AfterAttributeName", after_attribute_name_state(Self))
BeforeAttributeValue == Dispatch("BeforeAttributeValue", before_attribute_value_state(Self))
AttributeValueDoubleQuoted ==
    Dispatch("AttributeValueDoubleQuoted", attribute_value_double_quoted_state(Self))
AttributeValueSingleQuoted ==
    Dispatch("AttributeValueSingleQuoted", attribute_value_single_quoted_state(Self))
AttributeValueUnquoted ==
    Dispatch("AttributeValueUnquoted", attribute_value_unquoted_state(Self))
AfterAttributeValueQuoted ==
    Dispatch("AfterAttributeValueQuoted", after_attribute_value_quoted_state(Self))
SelfClosingStartTag == Dispatch("SelfClosingStartTag", self_closing_start_tag_state(Self))
BogusComment == Dispatch("BogusComment", bogus_comment_state(Self))
MarkupDeclarationOpen ==
    Dispatch("MarkupDeclarationOpen", markup_declaration_open_state(Self))
CommentStart == Dispatch("CommentStart", comment_start_state(Self))
CommentStartDash == Dispatch("CommentStartDash", comment_start_dash_state(Self))
Comment == Dispatch("Comment", comment_state(Self))
CommentLessThanSign == Dispatch("CommentLessThanSign", comment_less_than_sign_state(Self))
CommentLessThanSignBang ==
    Dispatch("CommentLessThanSignBang", comment_less_than_sign_bang_state(Self))
CommentLessThanSignBangDash ==
    Dispatch("CommentLessThanSignBangDash", comment_less_than_sign_bang_dash_state(Self))
CommentLessThanSignBangDashDash ==
    Dispatch("CommentLessThanSignBangDashDash",
             comment_less_than_sign_bang_dash_dash_state(Self))
CommentEndDash == Dispatch("CommentEndDash", comment_end_dash_state(Self))
CommentEnd == Dispatch("CommentEnd", comment_end_state(Self))
CommentEndBang == Dispatch("CommentEndBang", comment_end_bang_state(Self))
DOCTYPE == Dispatch("DOCTYPE", doctype_state(Self))
BeforeDOCTYPEName == Dispatch("BeforeDOCTYPEName", before_doctype_name_state(Self))
DOCTYPEName == Dispatch("DOCTYPEName", doctype_name_state(Self))
AfterDOCTYPEName == Dispatch("AfterDOCTYPEName", after_doctype_name_state(Self))
AfterDOCTYPEPublicKeyword ==
    Dispatch("AfterDOCTYPEPublicKeyword", after_doctype_public_keyword_state(Self))
BeforeDOCTYPEPublicIdentifier ==
    Dispatch("BeforeDOCTYPEPublicIdentifier", before_doctype_public_identifier_state(Self))
DOCTYPEPublicIdentifierDoubleQuoted ==
    Dispatch("DOCTYPEPublicIdentifierDoubleQuoted",
             doctype_public_identifier_double_quoted_state(Self))
DOCTYPEPublicIdentifierSingleQuoted ==
    Dispatch("DOCTYPEPublicIdentifierSingleQuoted",
             doctype_public_identifier_single_quoted_state(Self))
AfterDOCTYPEPublicIdentifier ==
    Dispatch("AfterDOCTYPEPublicIdentifier", after_doctype_public_identifier_state(Self))
BetweenDOCTYPEPublicAndSystemIdentifiers ==
    Dispatch("BetweenDOCTYPEPublicAndSystemIdentifiers",
             between_doctype_public_and_system_identifiers_state(Self))
AfterDOCTYPESystemKeyword ==
    Dispatch("AfterDOCTYPESystemKeyword", after_doctype_system_keyword_state(Self))
BeforeDOCTYPESystemIdentifier ==
    Dispatch("BeforeDOCTYPESystemIdentifier", before_doctype_system_identifier_state(Self))
DOCTYPESystemIdentifierDoubleQuoted ==
    Dispatch("DOCTYPESystemIdentifierDoubleQuoted",
             doctype_system_identifier_double_quoted_state(Self))
DOCTYPESystemIdentifierSingleQuoted ==
    Dispatch("DOCTYPESystemIdentifierSingleQuoted",
             doctype_system_identifier_single_quoted_state(Self))
AfterDOCTYPESystemIdentifier ==
    Dispatch("AfterDOCTYPESystemIdentifier", after_doctype_system_identifier_state(Self))
BogusDOCTYPE == Dispatch("BogusDOCTYPE", bogus_doctype_state(Self))
CDATASection == Dispatch("CDATASection", cdata_section_state(Self))
CDATASectionBracket == Dispatch("CDATASectionBracket", cdata_section_bracket_state(Self))
CDATASectionEnd == Dispatch("CDATASectionEnd", cdata_section_end_state(Self))
CharacterReference == Dispatch("CharacterReference", character_reference_state(Self))
NamedCharacterReference ==
    Dispatch("NamedCharacterReference", named_character_reference_state(Self))
AmbiguousAmpersand == Dispatch("AmbiguousAmpersand", ambiguous_ampersand_state(Self))
NumericCharacterReference ==
    Dispatch("NumericCharacterReference", numeric_character_reference_state(Self))
HexadecimalCharacterReferenceStart ==
    Dispatch("HexadecimalCharacterReferenceStart",
             hexadecimal_character_reference_start_state(Self))
DecimalCharacterReferenceStart ==
    Dispatch("DecimalCharacterReferenceStart",
             decimal_character_reference_start_state(Self))
HexadecimalCharacterReference ==
    \E overflow_checks \in BOOLEAN :
        Dispatch("HexadecimalCharacterReference",
                 hexadecimal_character_reference_state(Self, overflow_checks))
DecimalCharacterReference ==
    \E overflow_checks \in BOOLEAN :
        Dispatch("DecimalCharacterReference",
                 decimal_character_reference_state(Self, overflow_checks))
NumericCharacterReferenceEnd ==
    Dispatch("NumericCharacterReferenceEnd", numeric_character_reference_end_state(Self))

\* the while condition of scan is false: scan returns
ScanReturn ==
    /\ pc \in {"new", "scan"}
    /\ LastIsEOF
    /\ pc' = "ready"
    /\ UNCHANGED <<input, html, tokens, current_state, return_state, current_token,
                   current_character, temporary_buffer, character_reference_code,
                   open_tags, reconsume, consume_log, returned, scan_calls>>

\* one turn of the loop of scan, or its return
ScanStep ==
    \/ Data \/ TagOpen \/ EndTagOpen \/ TagName
    \/ BeforeAttributeName \/ AttributeName \/ AfterAttributeName
    \/ BeforeAttributeValue \/ AttributeValueDoubleQuoted
    \/ AttributeValueSingleQuoted \/ AttributeValueUnquoted
    \/ AfterAttributeValueQuoted \/ SelfClosingStartTag
    \/ BogusComment \/ MarkupDeclarationOpen
    \/ CommentStart \/ CommentStartDash \/ Comment
    \/ CommentLessThanSign \/ CommentLessThanSignBang
    \/ CommentLessThanSignBangDash \/ CommentLessThanSignBangDashDash
    \/ CommentEndDash \/ CommentEnd \/ CommentEndBang
    \/ DOCTYPE \/ BeforeDOCTYPEName \/ DOCTYPEName \/ AfterDOCTYPEName
    \/ AfterDOCTYPEPublicKeyword \/ BeforeDOCTYPEPublicIdentifier
    \/ DOCTYPEPublicIdentifierDoubleQuoted \/ DOCTYPEPublicIdentifierSingleQuoted
    \/ AfterDOCTYPEPublicIdentifier \/ BetweenDOCTYPEPublicAndSystemIdentifiers
    \/ AfterDOCTYPESystemKeyword \/ BeforeDOCTYPESystemIdentifier
    \/ DOCTYPESystemIdentifierDoubleQuoted \/ DOCTYPESystemIdentifierSingleQuoted
    \/ AfterDOCTYPESystemIdentifier \/ BogusDOCTYPE
    \/ CDATASection \/ CDATASectionBracket \/ CDATASectionEnd
    \/ CharacterReference \/ NamedCharacterReference \/ AmbiguousAmpersand
    \/ NumericCharacterReference \/ HexadecimalCharacterReferenceStart
    \/ DecimalCharacterReferenceStart \/ HexadecimalCharacterReference
    \/ DecimalCharacterReference \/ NumericCharacterReferenceEnd
    \/ ScanReturn

\* the most calls of scan after construction
MaxScanCalls == 1

\* the most calls of next_token that find the queue empty
MaxNoneReturned == 1

NoneReturned == Cardinality({i \in 1..Len(returned) : returned[i] = <<>>})

\* pub fn scan, called by the owner of the tokenizer: its loop starts
scan ==
    /\ pc = "ready"
    /\ scan_calls < MaxScanCalls
    /\ pc' = "scan"
    /\ scan_calls' = scan_calls + 1
    /\ UNCHANGED <<input, html, tokens, current_state, return_state, current_token,
                   current_character, temporary_buffer, character_reference_code,
                   open_tags, reconsume, consume_log, returned>>


\* next_token with pop_back for pop_front
next_token_from_back ==
    /\ pc = "ready"
    /\ tokens # <<>> \/ NoneReturned < MaxNoneReturned
    /\ returned' = Append(returned,
                          IF tokens = <<>> THEN <<>> ELSE <<tokens[Len(tokens)]>>)
    /\ tokens' = IF tokens = <<>> THEN <<>> ELSE SubSeq(tokens, 1, Len(tokens) - 1)
    /\ UNCHANGED <<input, html, current_state, return_state, current_token,
                   current_character, temporary_buffer, character_reference_code,
                   open_tags, reconsume, consume_log, pc, scan_calls>>

\* pub fn next_token: self.tokens.pop_front()
next_token ==
    /\ pc = "ready"
    /\ tokens # <<>> \/ NoneReturned < MaxNoneReturned
    /\ returned' = Append(returned, IF tokens = <<>> THEN <<>> ELSE <<Head(tokens)>>)
    /\ tokens' = IF tokens = <<>> THEN <<>> ELSE Tail(tokens)
    /\ UNCHANGED <<input, html, current_state, return_state, current_token,
                   current_character, temporary_buffer, character_reference_code,
                   open_tags, reconsume, consume_log, pc, scan_calls>>

Next == ScanStep \/ scan \/ next_token

Spec == Init /\ [][Next]_vars

----------------------------------------------------------------------------
(* The claims. *)

\* the construction is over and no public call was made since
Constructed == pc = "ready" /\ returned = <<>> /\ scan_calls = 0

\* C1: for every input, the scan that Tokenizer::new starts appends an EOF
\* token and its loop halts: on no input does the loop keep running without
\* ever emitting EOF.
C1_ScanOfNewHalts == ~(pc = "hang" /\ scan_calls = 0)

\* no '<' and no '&' in the input
TextOnly == \A i \in 1..Len(input) : input[i] \notin {LESS_THAN_SIGN, AMPERSAND}

\* the Some(token) results among results, as the sequence of their tokens
Somes(results) ==
    LET somes == SelectSeq(results, LAMBDA r : r # <<>>)
    IN  [i \in 1..Len(somes) |-> somes[i][1]]

\* C2: during the scan of Tokenizer::new, and until the owner's first call,
\* the queue holds at most one EOF token, and an EOF token it holds is its
\* last element.
C2_OneEOFAndLast ==
    (returned = <<>> /\ scan_calls = 0) =>
        \A i \in 1..Len(tokens) : tokens[i] = EOF => i = Len(tokens)

\* the scan of new has put tokens in the queue and EOF after them
C2_Witness == pc = "new" /\ LastIsEOF /\ Len(tokens) >= 3

\* C3: once EOF has been appended, no sequence of public operations
\* (next_token, scan) appends another token to the queue.
C3_NothingAppendedAfterEOF == [][pc # "new" => Len(tokens') <= Len(tokens)]_vars

\* C4: as long as scan is not called again, next_token drains the queue in
\* FIFO order: what was returned, followed by what is still queued, is always
\* what the scan emitted; None is returned only after EOF was, and nothing but
\* None after that.
C4_NextTokenDrainsInOrder ==
    /\ [](scan_calls = 0 /\ pc = "ready" =>
            \A i \in 1..Len(returned) :
                IF returned[i] = <<>>
                THEN i > 1 /\ returned[i - 1] \in {<<>>, <<EOF>>}
                ELSE i = 1 \/ returned[i - 1] \notin {<<>>, <<EOF>>})
    /\ [][scan_calls' = 0 /\ pc = "ready" =>
            Somes(returned') \o tokens' = Somes(returned) \o tokens]_vars

\* the queue was drained, EOF last, and the next call returned None
C4_Witness ==
    /\ scan_calls = 0
    /\ Len(returned) >= 4
    /\ returned[Len(returned)] = <<>>
    /\ returned[Len(returned) - 1] = <<EOF>>
    /\ returned[1] # <<EOF>>

\* C5: an input with neither '<' nor '&' gives one Char token per scalar, in
\* input order and with the scalar unchanged (U+0000 too), and then EOF.
C5_TextIsCharPerScalar ==
    TextOnly =>
        /\ pc \notin {"hang", "panic"}
        /\ Constructed =>
               tokens = [i \in 1..Len(input) + 1 |->
                            IF i <= Len(input) THEN Char(input[i]) ELSE EOF]

\* a text of three scalars with U+0000 among them has been tokenized
C5_Witness ==
    /\ Constructed
    /\ TextOnly
    /\ Len(input) = 3
    /\ \E i \in 1..3 : input[i] = NULL
    /\ \E i \in 1..3 : input[i] = 233

\* a name or a value as the tokenizer stores it: A-Z of a name in lower case,
\* U+0000 as U+FFFD
StoredName(s) ==
    [i \in 1..Len(s) |->
        IF s[i] \in UpperAlpha THEN s[i] + 32
        ELSE IF s[i] = NULL THEN REPLACEMENT_CHARACTER ELSE s[i]]

StoredValue(s) == [i \in 1..Len(s) |-> IF s[i] = NULL THEN REPLACEMENT_CHARACTER ELSE s[i]]

\* the token of one construct of a document
TokenOfItem(item) ==
    CASE item.kind = "start" -> [new_start_tag EXCEPT !.tag_name = StoredName(item.name)]
      [] item.kind = "end" -> [new_end_tag EXCEPT !.tag_name = StoredName(item.name)]
      [] OTHER -> Char(item.char)

TokensOfDocument(d) ==
    <<[new_doctype EXCEPT !.name = Str(<<"h", "t", "m", "l">>)]>>
    \o [i \in 1..Len(d) |-> TokenOfItem(d[i])]
    \o <<EOF>>

\* the document an input of DocumentInputs is the serialization of
DocumentOfInput ==
    [s \in DocumentInputs |-> CHOOSE d \in Documents : SerializeDocument(d) = s]

\* C6: <!DOCTYPE html> followed by properly nested start and end tags without
\* attributes and text without '<' and '&' gives the DOCTYPE token named html
\* (no identifiers, force_quirks off), then one start tag, end tag or Char
\* token per construct in input order, then EOF.
C6_DocumentIsTokenPerConstruct ==
    input \in DocumentInputs =>
        /\ pc \notin {"hang", "panic"}
        /\ Constructed => tokens = TokensOfDocument(DocumentOfInput[input])

\* <!DOCTYPE html><p>H<H1></H1></p>, or the like, has been tokenized
C6_Witness ==
    /\ Constructed
    /\ input \in DocumentInputs
    /\ LET d == DocumentOfInput[input]
       IN  /\ Len(d) = 4
           /\ d[1].kind = "start" /\ d[2].kind = "start"
           /\ d[3].kind = "end" /\ d[4].kind = "end"
           /\ d[1].name # d[2].name
    /\ Len(tokens) = 6

Attribute(name, value) == [Attribute_new EXCEPT !.name = name, !.value = value]

\* the Tag token of <name a1="v1" b='v2' c=v3 d>: the name, the attribute
\* names and the values as the tokenizer stores them, in input order
TagAsStored(tag) ==
    [new_start_tag EXCEPT
        !.tag_name = StoredName(tag.name),
        !.attributes = <<Attribute(StoredName(tag.a1), StoredValue(tag.v1)),
                         Attribute(<<98>>, StoredValue(tag.v2)),
                         Attribute(<<99>>, StoredValue(tag.v3)),
                         Attribute(<<100>>, <<>>)>>]

\* the tag an input of AttributeTagInputs is the serialization of
TagOfInput ==
    [s \in AttributeTagInputs |->
        CHOOSE tag \in AttributeTags : SerializeAttributeTag(tag) = s]

Emitted(type) == {tokens[i] : i \in {j \in 1..Len(tokens) : tokens[j].type = type}}

\* the elements of a sequence
Range(s) == {s[i] : i \in 1..Len(s)}

\* C8: in every emitted Tag token the attribute names are pairwise distinct.
C8_AttributeNamesDistinct ==
    \A tag \in Emitted("Tag") :
        \A i, j \in 1..Len(tag.attributes) :
            tag.attributes[i].name = tag.attributes[j].name => i = j

\* C9: no emitted tag name, attribute name or DOCTYPE name has an ASCII
\* upper-case letter.
C9_NamesHaveNoUpperAlpha ==
    /\ \A tag \in Emitted("Tag") :
           /\ Range(tag.tag_name) \cap UpperAlpha = {}
           /\ \A i \in 1..Len(tag.attributes) :
                  Range(tag.attributes[i].name) \cap UpperAlpha = {}
    /\ \A doctype \in Emitted("DOCTYPE") : Range(doctype.name) \cap UpperAlpha = {}

\* a tag written <Ab Xy=...> was emitted as ab, its first attribute as xy
C9_Witness ==
    /\ Len(input) >= 6
    /\ SubSeq(input, 1, 6) = Str(<<"<", "A", "b", " ", "X", "y">>)
    /\ \E tag \in Emitted("Tag") :
           /\ tag.tag_name = Str(<<"a", "b">>)
           /\ tag.attributes[1].name = Str(<<"x", "y">>)

\* C10: no emitted token has U+0000 in its tag name, attribute names,
\* attribute values, comment data, DOCTYPE name or DOCTYPE identifiers.
C10_AccumulatorsHaveNoNull ==
    /\ \A tag \in Emitted("Tag") :
           /\ NULL \notin Range(tag.tag_name)
           /\ \A i \in 1..Len(tag.attributes) :
                  /\ NULL \notin Range(tag.attributes[i].name)
                  /\ NULL \notin Range(tag.attributes[i].value)
    /\ \A comment \in Emitted("Comment") : NULL \notin Range(comment.data)
    /\ \A doctype \in Emitted("DOCTYPE") :
           /\ NULL \notin Range(doctype.name)
           /\ \A id \in Range(doctype.public_id) \cup Range(doctype.system_id) :
                  NULL \notin Range(id)

\* an input with U+0000 gave a token with U+FFFD in one of these fields
C10_Witness ==
    /\ NULL \in Range(input)
    /\ \/ \E tag \in Emitted("Tag") :
              \E i \in 1..Len(tag.attributes) :
                  REPLACEMENT_CHARACTER \in Range(tag.attributes[i].value)
       \/ \E comment \in Emitted("Comment") :
              REPLACEMENT_CHARACTER \in Range(comment.data)
       \/ \E doctype \in Emitted("DOCTYPE") :
              \E id \in Range(doctype.public_id) : REPLACEMENT_CHARACTER \in Range(id)

\* the data d of an input <!-- d -->
DataOfInput == SubSeq(input, 5, Len(input) - 3)

\* C11, as stated: for every comment data d without -->, <!-- d --> gives
\* exactly Comment{data: d} and then EOF.
C11_AsStated ==
    input \in CommentInputs /\ Constructed =>
        tokens = <<[new_comment EXCEPT !.data = DataOfInput], EOF>>

\* the data that end the comment early or are stored changed: a leading > or
\* ->, --!> anywhere, U+0000 anywhere
Abrupt(d) ==
    \/ Len(d) >= 1 /\ d[1] = GREATER_THAN_SIGN
    \/ Len(d) >= 2 /\ SubSeq(d, 1, 2) = Str(<<"-", ">">>)
    \/ Contains(d, Str(<<"-", "-", "!", ">">>))
    \/ Contains(d, <<NULL>>)

\* C11, amended: the same for every d that has no -->, no --!> and no U+0000
\* and does not begin with > or ->.
C11_CommentRoundTrips ==
    input \in CommentInputs /\ ~Abrupt(DataOfInput) =>
        /\ pc \notin {"hang", "panic"}
        /\ Constructed => tokens = <<[new_comment EXCEPT !.data = DataOfInput], EOF>>

\* a comment of four scalars with '-', '<' and '!' among them made the trip
C11_Witness ==
    /\ Constructed
    /\ input \in CommentInputs
    /\ Len(DataOfInput) = 4
    /\ {HYPHEN_MINUS, LESS_THAN_SIGN, EXCLAMATION_MARK} \subseteq Range(DataOfInput)
    /\ tokens = <<[new_comment EXCEPT !.data = DataOfInput], EOF>>

\* the x and y an input of NestedCommentInputs is written from
NestedCommentOfInput ==
    [s \in NestedCommentInputs |->
        CHOOSE n \in NestedComments : SerializeNestedComment(n) = s]

\* C12: <!-- x <!-- y -->, x and y of ASCII letters, gives exactly
\* Comment{data: x <!-- y} and then EOF: the inner <!-- neither ends nor
\* restarts the comment.
C12_InnerCommentOpenIsData ==
    input \in NestedCommentInputs =>
        /\ pc \notin {"hang", "panic"}
        /\ Constructed =>
               LET n == NestedCommentOfInput[input]
               IN  tokens = <<[new_comment EXCEPT !.data = n.x \o COMMENT_OPEN \o n.y], EOF>>

\* <!--aB<!--Ba-->, or the like, has been tokenized
C12_Witness ==
    /\ Constructed
    /\ input \in NestedCommentInputs
    /\ Len(NestedCommentOfInput[input].x) = 2
    /\ Len(NestedCommentOfInput[input].y) = 2
    /\ Len(tokens) = 2
    /\ Len(tokens[1].data) = 8

----------------------------------------------------------------------------
(* C13: character references in the data state. *)

\* the scalars a reference of ReferencePieces stands for in the data state:
\* a known name or a number gives its one scalar, an unknown name its own text
ExpansionOfPiece(piece) ==
    CASE piece = REFERENCE_AMP -> <<AMPERSAND>>
      [] piece = REFERENCE_65 -> <<65>>
      [] piece = REFERENCE_X4A -> <<74>>
      [] piece = REFERENCE_BOGUS -> REFERENCE_BOGUS

RunOfInput ==
    [s \in ReferenceRunInputs |-> CHOOSE run \in ReferenceRuns : Concat(run) = s]

CharsOf(s) == [i \in 1..Len(s) |-> Char(s[i])]

\* C13: a run of the references &amp; &#65; &#x4A; &bogus; in the data state,
\* in any order, gives the Char tokens of '&', 'A', 'J' and of the seven
\* scalars of "&bogus;" for its pieces, in order, then EOF: nothing is lost
\* and nothing is duplicated
C13_ReferencesInData ==
    input \in ReferenceRunInputs =>
        /\ pc \notin {"hang", "panic"}
        /\ Constructed =>
               LET run == RunOfInput[input]
               IN tokens = CharsOf(Concat([i \in 1..Len(run) |-> ExpansionOfPiece(run[i])]))
                               \o <<EOF>>

\* the input of the claim: &amp;&#65;&#x4A;&bogus;
C13_Witness ==
    /\ Constructed
    /\ input = REFERENCE_AMP \o REFERENCE_65 \o REFERENCE_X4A \o REFERENCE_BOGUS
    /\ tokens = CharsOf(<<AMPERSAND, 65, 74>> \o REFERENCE_BOGUS) \o <<EOF>>

----------------------------------------------------------------------------
(* C14: a name that has no row of its own but begins with one that has. *)

PrefixedNameOfInput ==
    [s \in PrefixedNameInputs |->
        CHOOSE n \in PrefixedNames : SerializePrefixedName(n) = s]

\* what named_character_reference_state consumes of a prefixed name: the
\* letters, and the semicolon when that is what stops them
ConsumedName(n) ==
    n.known \o n.letters \o (IF n.stop = <<SEMICOLON>> THEN n.stop ELSE <<>>)

\* the tokens C14 gives a prefixed name: the expansion of the known prefix,
\* the rest of the consumed name, the scalar that stopped the name when it is
\* not part of the name, and EOF
TokensOfPrefixedName(n) ==
    CharsOf(get_entity(n.known)[1]
            \o SubSeq(ConsumedName(n), Len(n.known) + 1, Len(ConsumedName(n)))
            \o (IF n.stop = <<SEMICOLON>> THEN <<>> ELSE n.stop))
    \o <<EOF>>

\* C14: in the data state a consumed name that has no row of the table, while
\* a proper prefix of it has one, gives the expansion of the prefix, then the
\* rest of the name as Char tokens, then what the data state makes of the
\* scalar that stopped the name
C14_PrefixThenRestThenStop ==
    input \in PrefixedNameInputs
    /\ get_entity(ConsumedName(PrefixedNameOfInput[input])) = <<>> =>
        /\ pc \notin {"hang", "panic"}
        /\ Constructed => tokens = TokensOfPrefixedName(PrefixedNameOfInput[input])

\* the same for names of ASCII letters only
C14_AsciiPrefixThenRestThenStop ==
    input \in PrefixedNameInputs
    /\ get_entity(ConsumedName(PrefixedNameOfInput[input])) = <<>>
    /\ (\A i \in 1..Len(input) : input[i] < 128) =>
        /\ pc \notin {"hang", "panic"}
        /\ Constructed => tokens = TokensOfPrefixedName(PrefixedNameOfInput[input])

\* the input of the claim: &notin
C14_Witness ==
    /\ Constructed
    /\ input = Str(<<"&", "n", "o", "t", "i", "n">>)
    /\ tokens = <<Char(172), Char(105), Char(110), EOF>>

----------------------------------------------------------------------------
(* C15: an ampersand that begins no reference. *)

\* '&' alone, or '&' and then scalars the first of which is neither '#' nor
\* ASCII alphanumeric
LoneAmpersand(s) ==
    /\ Len(s) >= 1
    /\ s[1] = AMPERSAND
    /\ Len(s) >= 2 =>
          /\ s[2] # NUMBER_SIGN
          /\ ~is_ascii_digit(s[2])
          /\ s[2] \notin UpperAlpha \cup LowerAlpha

AmpersandValueOfInput ==
    [s \in AmpersandValueInputs |->
        CHOOSE v \in AmpersandValues : SerializeAmpersandValue(v) = s]

\* the value C15 gives the attribute of <a a=q&nq>: the '&' and what follows
\* it up to the end of the value
ValueOfAmpersandValue(v) ==
    <<AMPERSAND>> \o (IF v.quote = <<>> /\ v.next = <<SPACE>> THEN <<>> ELSE v.next)

\* C15: an '&' followed by EOF or by a scalar that is neither '#' nor ASCII
\* alphanumeric stays as it is: in the data state the first token is
\* Char('&') and the scalar after it is handled by the data state, in an
\* attribute value the '&' is in the value
C15_LoneAmpersandIsLiteral ==
    Constructed =>
        /\ LoneAmpersand(input) => tokens # <<>> /\ tokens[1] = Char(AMPERSAND)
        /\ input \in AmpersandValueInputs =>
              tokens = <<[new_start_tag EXCEPT
                            !.tag_name = Str(<<"a">>),
                            !.attributes =
                                <<Attribute(Str(<<"a">>),
                                    ValueOfAmpersandValue(AmpersandValueOfInput[input]))>>],
                         EOF>>

\* what the code makes of the same inputs: the '&' is gone, in the data state
\* and in the attribute value, and the rest is as C15 has it
C15_LoneAmpersandIsDropped ==
    Constructed =>
        /\ input = <<AMPERSAND>> => tokens = <<EOF>>
        /\ input \in AmpersandValueInputs =>
              tokens = <<[new_start_tag EXCEPT
                            !.tag_name = Str(<<"a">>),
                            !.attributes =
                                <<Attribute(Str(<<"a">>),
                                    Tail(ValueOfAmpersandValue(AmpersandValueOfInput[input])))>>],
                         EOF>>

----------------------------------------------------------------------------
(* C16, C17: the scalar of a numeric reference. *)

NumericReferenceOfInput ==
    [s \in NumericReferenceInputs |->
        CHOOSE n \in NumericReferences : SerializeNumericReference(n) = s]

\* the scalar C16 gives a referenced value that is no control
ScalarOfValue(v) ==
    IF \/ v = 0
       \/ is_numeric_surrogate(v)
       \/ is_numeric_noncharacter(v)
       \/ v > 1114111
    THEN REPLACEMENT_CHARACTER
    ELSE v

\* every Char token holds a Unicode scalar value
CharsAreScalars ==
    \A i \in 1..Len(tokens) :
        tokens[i].type = "Char" =>
            tokens[i].char \in 0..1114111 /\ ~is_numeric_surrogate(tokens[i].char)

\* C16: a numeric reference of any number of digits gives no surrogate and
\* nothing above 0x10FFFF; the value 0, a surrogate, a noncharacter and a value
\* above 0x10FFFF give U+FFFD, and a scalar that is no control gives itself
C16_NumericReferenceScalar ==
    /\ CharsAreScalars
    /\ input \in NumericReferenceInputs /\ ~is_numeric_control(NumericReferenceOfInput[input].value) =>
          /\ pc \notin {"hang", "panic"}
          /\ Constructed =>
                tokens = <<Char(ScalarOfValue(NumericReferenceOfInput[input].value)), EOF>>
    /\ input \in LongReferenceInputs =>
          /\ pc \notin {"hang", "panic"}
          /\ Constructed => tokens = <<Char(REPLACEMENT_CHARACTER), EOF>>

\* the same for the references whose value is below 2^32
C16_ShortNumericReferenceScalar ==
    /\ CharsAreScalars
    /\ input \in NumericReferenceInputs /\ ~is_numeric_control(NumericReferenceOfInput[input].value) =>
          /\ pc \notin {"hang", "panic"}
          /\ Constructed =>
                tokens = <<Char(ScalarOfValue(NumericReferenceOfInput[input].value)), EOF>>

\* the value of the digits consumed so far is above 0x10FFFF
AboveUnicode ==
    \/ input \in LongReferenceInputs /\ Len(input) - Len(html) >= 9
    \/ /\ input \in NumericReferenceInputs
       /\ NumericReferenceOfInput[input].value > 1114111
       /\ html \in NumericStops

\* C17: the accumulator does not overflow and does not wrap: once the digits
\* consumed have a value above 0x10FFFF, character_reference_code is above
\* 0x10FFFF, and the reference ends as U+FFFD however many digits it has
C17_AccumulatorSaturates ==
    /\ ~(/\ pc = "panic"
         /\ current_state \in {"HexadecimalCharacterReference", "DecimalCharacterReference"})
    /\ /\ input \in LongReferenceInputs \cup NumericReferenceInputs
       /\ current_state \in {"HexadecimalCharacterReference", "DecimalCharacterReference"}
       /\ pc \in {"new", "scan"}
       /\ AboveUnicode
       => character_reference_code.hi > 16
    /\ input \in LongReferenceInputs /\ Constructed =>
          tokens = <<Char(REPLACEMENT_CHARACTER), EOF>>

----------------------------------------------------------------------------
(* C18, C19: the content of a script element. *)

ScriptElementOfInput ==
    [s \in ScriptInputs |-> CHOOSE e \in ScriptElements : SerializeScriptElement(e) = s]

\* the tokens C18 and C19 give a script element: the start tag, a Char for
\* every scalar of the content, the end tag, and, of the rest ";</script>,
\* the two Chars only
TokensOfScriptElement(e) ==
    <<[new_start_tag EXCEPT !.tag_name = SCRIPT]>>
    \o CharsOf(e.content)
    \o <<[new_end_tag EXCEPT !.tag_name = SCRIPT]>>
    \o (IF e.rest = <<>> THEN <<>> ELSE CharsOf(Str(<<"\"", ";">>)))
    \o <<EOF>>

\* a content in which no '<' is followed by a letter, '/', '!' or '?'
NoMarkup(content) ==
    \A i \in 1..Len(content) :
        content[i] = LESS_THAN_SIGN /\ i < Len(content) =>
            /\ ~is_alphabetic(content[i + 1])
            /\ content[i + 1] \notin {SOLIDUS, EXCLAMATION_MARK, QUESTION_MARK}

\* C18: <script>var x = "</script>";</script> gives the start tag script, the
\* nine Chars of the content, the end tag script, Char('"'), Char(';') and
\* EOF, the second </script> giving no token; and so does every script
\* element whose content has no markup
C18_SecondEndTagGivesNoToken ==
    input \in ScriptInputs /\ NoMarkup(ScriptElementOfInput[input].content) =>
        /\ pc \notin {"hang", "panic"}
        /\ Constructed => tokens = TokensOfScriptElement(ScriptElementOfInput[input])

\* the input of the claim
C18_Witness ==
    /\ Constructed
    /\ input = SCRIPT_OPEN \o VAR_X \o SCRIPT_CLOSE \o Str(<<"\"", ";">>) \o SCRIPT_CLOSE
    /\ Len(tokens) = 14
    /\ tokens[11] = [new_end_tag EXCEPT !.tag_name = SCRIPT]
    /\ tokens[13] = Char(SEMICOLON)
    /\ tokens[14] = EOF

\* C19: after the start tag script, every scalar up to </script is a Char
\* token, a '<' followed by a letter too, and no Tag, Comment or other token
\* is made of script content
C19_ScriptContentIsChars ==
    input \in ScriptInputs =>
        /\ pc \notin {"hang", "panic"}
        /\ Constructed => tokens = TokensOfScriptElement(ScriptElementOfInput[input])

----------------------------------------------------------------------------
(* C20: the self-closing flag. *)

ClosedTagOfInput ==
    [s \in ClosedTagInputs |-> CHOOSE tag \in ClosedTags : SerializeClosedTag(tag) = s]

----------------------------------------------------------------------------
(* C21: the end of the input after "<!". *)

\* C21: when the input ends right after "<!", the tokens are a Comment with
\* empty data and then EOF, and the scan halts
C21_EofAfterBangIsEmptyComment ==
    input = LT_BANG =>
        /\ pc # "hang"
        /\ Constructed => tokens = <<new_comment, EOF>>

\* what the code does on "<!": no token at all, and the loop of scan turns in
\* MarkupDeclarationOpen without end
C21_EofAfterBangHangs ==
    input = LT_BANG =>
        /\ tokens = <<>>
        /\ pc \in {"new", "scan", "hang"}
        /\ pc = "hang" => current_state = "MarkupDeclarationOpen"

----------------------------------------------------------------------------
(* C22: the end of the input after '<'. *)

\* the '<' that the data state has consumed is the last scalar of the input
EofAfterLessThanSign ==
    /\ pc \in {"new", "scan"}
    /\ current_state = "TagOpen"
    /\ html = <<>>
    /\ ~reconsume
    /\ ~LastIsEOF

\* C22: when the input ends right after a '<' consumed in the data state, the
\* next turn appends Char('<') and then EOF to the queue, and nothing else
C22_EofAfterLessThanSign ==
    [][EofAfterLessThanSign => tokens' = tokens \o <<Char(LESS_THAN_SIGN), EOF>>]_vars

\* text, a tag, and a '<' at the end: the queue ends in the tag, Char('<'), EOF
C22_Witness ==
    /\ Constructed
    /\ Len(input) >= 4
    /\ input[Len(input)] = LESS_THAN_SIGN
    /\ Len(tokens) >= 3
    /\ IsTag(tokens[Len(tokens) - 2])
    /\ tokens[Len(tokens) - 1] = Char(LESS_THAN_SIGN)
    /\ tokens[Len(tokens)] = EOF

----------------------------------------------------------------------------
(* C23: the end of the input in an attribute value. *)

AttributeValueStates ==
    {"AttributeValueDoubleQuoted", "AttributeValueSingleQuoted", "AttributeValueUnquoted"}

\* the next consume returns None: the input is exhausted, or the scalar to
\* reconsume is the absent one
NextIsAbsent ==
    IF reconsume THEN current_character = <<>> ELSE html = <<>>

\* C23: when the input ends in an attribute-value state, the turn appends EOF
\* and nothing else, the tag under construction is not emitted, and open_tags
\* is as it was
C23_EofInAttributeValueDropsTag ==
    [][/\ pc \in {"new", "scan"}
       /\ ~LastIsEOF
       /\ current_state \in AttributeValueStates
       /\ NextIsAbsent
       => /\ tokens' = Append(tokens, EOF)
          /\ open_tags' = open_tags
          /\ pc' \notin {"hang", "panic"}]_vars

\* the input has ended in the value of an attribute: after the construction
\* the queue holds EOF alone and the tag is still the current token
C23_Witness ==
    /\ Constructed
    /\ current_state \in AttributeValueStates
    /\ current_token # <<>>
    /\ IsTag(current_token[1])
    /\ current_token[1].attributes # <<>>
    /\ tokens = <<EOF>>

----------------------------------------------------------------------------
(* C24: "<![CDATA[" in stand-alone use. *)

StartsWith(s, p) == Len(s) >= Len(p) /\ SubSeq(s, 1, Len(p)) = p

CDATAStates == {"CDATASection", "CDATASectionBracket", "CDATASectionEnd"}

\* [CDATA[
CDATA_DATA == Tail(Tail(CDATA_OPEN))

\* C24: "<![CDATA[" is a bogus comment: the tokenizer is never in a CDATA
\* section state, and the first token of an input that begins with
\* "<![CDATA[" is a Comment whose data begins with "[CDATA["
C24_CDATAIsBogusComment ==
    /\ current_state \notin CDATAStates
    /\ Constructed /\ StartsWith(input, CDATA_OPEN) =>
          /\ tokens # <<>>
          /\ tokens[1].type = "Comment"
          /\ StartsWith(tokens[1].data, CDATA_DATA)

\* what the code does: after "<![CDATA[" it is in the CDATASection state
\* with no current token, and no token of such an input is a Comment
C24_CDATAIsSection ==
    StartsWith(input, CDATA_OPEN) =>
        /\ Len(input) - Len(html) = Len(CDATA_OPEN) /\ ~reconsume =>
              current_state = "CDATASection" /\ current_token = <<>>
        /\ \A i \in 1..Len(tokens) : tokens[i].type \in {"Char", "EOF"}

----------------------------------------------------------------------------
(* C25: the spellings of DOCTYPE. *)

\* C25: after "<!", every spelling of the letters DOCTYPE, in whatever case,
\* leads to a DOCTYPE token and not to a Comment token
C25_DoctypeInAnyCase ==
    input \in DoctypeSpellingInputs =>
        /\ pc \notin {"hang", "panic"}
        /\ Constructed =>
              tokens = <<[new_doctype EXCEPT !.name = Str(<<"a">>)], EOF>>

\* the same for the spellings that begin with the upper-case 'D'
C25_DoctypeWithUpperCaseD ==
    input \in DoctypeSpellingInputs /\ input[3] = goal_doctype[1] =>
        /\ pc \notin {"hang", "panic"}
        /\ Constructed =>
              tokens = <<[new_doctype EXCEPT !.name = Str(<<"a">>)], EOF>>

\* what the code does with a spelling that begins with 'd': a Comment whose
\* data is the input between "<!" and ">"
C25_LowerCaseDIsComment ==
    input \in DoctypeSpellingInputs /\ input[3] # goal_doctype[1] /\ Constructed =>
        tokens = <<[new_comment EXCEPT !.data = SubSeq(input, 3, Len(input) - 1)], EOF>>

----------------------------------------------------------------------------
(* C26: missing and empty identifiers of a DOCTYPE. *)

DoctypeOfInput ==
    [s \in DoctypeWithIdentifiersInputs |->
        CHOOSE d \in DoctypesWithIdentifiers : SerializeDoctypeWithIdentifiers(d) = s]

\* the scalar the next consume returns, as an Option
NextScalar ==
    IF reconsume THEN current_character
    ELSE IF html = <<>> THEN <<>> ELSE <<Head(html)>>

\* the next consume returns an opening quote
NextIsQuote == NextScalar \in {<<QUOTATION_MARK>>, <<APOSTROPHE>>}

\* the states in which a quote opens a public identifier, a system identifier
BeforePublicIdentifier == {"AfterDOCTYPEPublicKeyword", "BeforeDOCTYPEPublicIdentifier"}
BeforeSystemIdentifier ==
    {"AfterDOCTYPEPublicIdentifier", "BetweenDOCTYPEPublicAndSystemIdentifiers",
     "AfterDOCTYPESystemKeyword", "BeforeDOCTYPESystemIdentifier"}

CurrentIsDoctype == current_token # <<>> /\ current_token[1].type = "DOCTYPE"

\* the identifiers of the DOCTYPE token of an input with identifiers: present
\* with the text between the quotes where the input has quotes, missing where
\* it has none
IdentifiersAsWritten ==
    input \in DoctypeWithIdentifiersInputs /\ Constructed =>
        LET d == DoctypeOfInput[input]
        IN  /\ Len(tokens) = 2
            /\ tokens[1].type = "DOCTYPE"
            /\ tokens[1].public_id =
                  IF d.kind \in {"public", "public system"} THEN <<d.public>> ELSE <<>>
            /\ tokens[1].system_id =
                  IF d.kind \in {"system", "public system"} THEN <<d.system>> ELSE <<>>

\* a missing identifier becomes present only in the step that consumes its
\* opening quote, and that step makes it present and empty
PresentOnlyByQuote ==
    /\ CurrentIsDoctype /\ current_token[1].public_id = <<>> =>
          /\ current_state \in BeforePublicIdentifier /\ NextIsQuote =>
                current_token'[1].public_id = << <<>> >>
          /\ ~(current_state \in BeforePublicIdentifier /\ NextIsQuote)
              /\ current_token' # <<>> => current_token'[1].public_id = <<>>
    /\ CurrentIsDoctype /\ current_token[1].system_id = <<>> =>
          /\ current_state \in BeforeSystemIdentifier /\ NextIsQuote =>
                current_token'[1].system_id = << <<>> >>
          /\ ~(current_state \in BeforeSystemIdentifier /\ NextIsQuote)
              /\ current_token' # <<>> => current_token'[1].system_id = <<>>

\* a DOCTYPE token is emitted with the identifiers the current token holds
EmittedAsHeld ==
    CurrentIsDoctype /\ current_token' = <<>> /\ Len(tokens') > Len(tokens) =>
        /\ tokens'[Len(tokens) + 1].type = "DOCTYPE"
        /\ tokens'[Len(tokens) + 1].public_id = current_token[1].public_id
        /\ tokens'[Len(tokens) + 1].system_id = current_token[1].system_id

\* C26: in an emitted DOCTYPE token public_id is present, possibly empty, if
\* and only if an opening quote of a public identifier was consumed for it,
\* and so is system_id; an identifier that is missing stays missing through
\* every step that does not consume its opening quote
C26_IdentifierPresentIffQuoted ==
    /\ []IdentifiersAsWritten
    /\ [][(pc \in {"new", "scan"}) => PresentOnlyByQuote /\ EmittedAsHeld]_vars

\* <!DOCTYPE a PUBLIC "" 'x'> with either quote: public_id is present and
\* empty, system_id is present
C26_Witness ==
    /\ Constructed
    /\ input \in DoctypeWithIdentifiersInputs
    /\ DoctypeOfInput[input].kind = "public system"
    /\ tokens[1].public_id = << <<>> >>
    /\ tokens[1].system_id = <<Str(<<"x">>)>>

----------------------------------------------------------------------------
(* C27: open_tags and the emission of tags. *)

\* the tokens a step appends to the queue
Appended == SubSeq(tokens', Len(tokens) + 1, Len(tokens'))

\* the Tag tokens among them
AppendedTags == {i \in 1..Len(Appended) : Appended[i].type = "Tag"}

Top(stack) == stack[Len(stack)]

\* what C27 makes of open_tags in a step that appends the one tag
StackAfter(stack, tag) ==
    IF tag.self_closing THEN stack
    ELSE IF ~tag.is_end_tag THEN Append(stack, tag.tag_name)
    ELSE IF stack # <<>> /\ Top(stack) = tag.tag_name
         THEN SubSeq(stack, 1, Len(stack) - 1)
         ELSE stack

----------------------------------------------------------------------------
(* C28: a name of the table before '=' or an alphanumeric, in an attribute value. *)

AttributeReferenceOfInput ==
    [s \in AttributeReferenceInputs |->
        CHOOSE r \in AttributeReferences : SerializeAttributeReference(r) = s]

----------------------------------------------------------------------------
(* C29: a character reference in an attribute value. *)

ReferenceStates ==
    {"CharacterReference", "NamedCharacterReference", "AmbiguousAmpersand",
     "NumericCharacterReference", "HexadecimalCharacterReferenceStart",
     "DecimalCharacterReferenceStart", "HexadecimalCharacterReference",
     "DecimalCharacterReference", "NumericCharacterReferenceEnd"}

\* the step is one of a reference whose return state is an attribute-value
\* state: the step of the '&' that starts it, or a step of a reference state
InAttributeReference ==
    \/ current_state \in AttributeValueStates /\ current_state' = "CharacterReference"
    \/ current_state \in ReferenceStates /\ return_state \in AttributeValueStates

\* the current token is a tag with an attribute, and the step changes at most
\* the value of its last attribute, by appending to it
OnlyLastValueGrows ==
    /\ current_token # <<>>
    /\ IsTag(current_token[1])
    /\ current_token[1].attributes # <<>>
    /\ LET tag == current_token[1]
           n == Len(tag.attributes)
       IN  /\ current_token' # <<>>
           /\ Len(current_token'[1].attributes) = n
           /\ StartsWith(current_token'[1].attributes[n].value, tag.attributes[n].value)
           /\ current_token' =
                  <<[tag EXCEPT !.attributes[n].value =
                                    current_token'[1].attributes[n].value]>>

----------------------------------------------------------------------------
(* C30: consume and the reconsume flag. *)

\* C30: consume honours the reconsume flag once: a call that finds the flag
\* set returns what the call before it returned, leaves the cursor where it
\* was and the flag false; and once a call has returned absence, every later
\* call returns absence
C30_ReconsumeReturnsTheSame ==
    /\ ~consume_log.unlike
    /\ ~consume_log.revived
    /\ reconsume =>
          /\ current_character = consume_log.returned
          /\ consume(Self).current_character = consume_log.returned
          /\ consume(Self).html = html
          /\ ~consume(Self).reconsume
    /\ consume_log.absent => html = <<>> /\ consume(Self).current_character = <<>>

\* after some text the input ended, a handler set the flag, and the call of
\* consume that found the flag set returned absence again
C30_Witness ==
    /\ Constructed
    /\ consume_log.flagged
    /\ consume_log.absent
    /\ consume_log.returned = <<>>
    /\ ~reconsume
    /\ Len(tokens) >= 2
    /\ tokens[1].type = "Char"

----------------------------------------------------------------------------
(* C31: the token under construction. *)

IsConstructed(t) == t.type \in {"Tag", "Comment", "DOCTYPE"}

\* the step appends a tag, a comment or a DOCTYPE to the queue
EmitsConstructed ==
    \E i \in DOMAIN Appended : IsConstructed(Appended[i])

\* C31: emission consumes the token under construction: after a step that
\* emits a tag, a comment or a DOCTYPE current_token is empty, and between the
\* turns of the loop, before EOF, current_token is empty whenever the state
\* is Data
C31_EmissionConsumes ==
    /\ [](pc \in {"new", "scan"} /\ current_state = "Data" /\ ~LastIsEOF
            => current_token = <<>>)
    /\ [][(pc \in {"new", "scan"} /\ EmitsConstructed) => current_token' = <<>>]_vars

\* a comment, a start tag and an end tag have been emitted, EOF has not, and
\* the machine is in Data with no current token
C31_Witness ==
    /\ pc = "new"
    /\ current_state = "Data"
    /\ current_token = <<>>
    /\ Len(tokens) = 3
    /\ IsComment(tokens[1])
    /\ IsTag(tokens[2]) /\ ~tokens[2].is_end_tag
    /\ IsTag(tokens[3]) /\ tokens[3].is_end_tag

----------------------------------------------------------------------------
(* C32: the end of the input in a comment. *)

\* the input opens a comment with <!-- and has no '>' after it, so that the
\* comment is open when the input ends
UnclosedComment ==
    /\ StartsWith(input, COMMENT_OPEN)
    /\ GREATER_THAN_SIGN \notin Range(SubSeq(input, Len(COMMENT_OPEN) + 1, Len(input)))

\* C32: when the input ends in a comment opened with <!--, in any comment
\* state, the Comment token is emitted and then EOF
C32_EofInCommentEmitsComment ==
    UnclosedComment =>
        /\ pc # "hang"
        /\ Constructed =>
              /\ Len(tokens) = 2
              /\ IsComment(tokens[1])
              /\ tokens[2] = EOF

\* what the code does: the loop of scan can only stop turning in
\* CommentEndDash, where nothing has been emitted; when it does not, the
\* Comment and EOF are emitted
C32_EofInCommentEndDashHangs ==
    UnclosedComment =>
        /\ pc = "hang" => current_state = "CommentEndDash" /\ tokens = <<>> /\ html = <<>>
        /\ (pc \in {"new", "scan"} /\ current_state = "CommentEndDash" /\ NextIsAbsent)
              => tokens = <<>>
        /\ Constructed =>
              /\ Len(tokens) = 2
              /\ IsComment(tokens[1])
              /\ tokens[2] = EOF

----------------------------------------------------------------------------
(* C33: the end of the input after the name of a DOCTYPE. *)

\* <!DOCTYPE a and one or two spaces, then the end of the input
EndsAfterDoctypeName ==
    input \in {DOCTYPE_A \o <<SPACE>>, DOCTYPE_A \o <<SPACE, SPACE>>}

\* C33: when the input ends in the after-DOCTYPE-name state, the DOCTYPE is
\* emitted with force_quirks set, and then EOF
C33_EofAfterDoctypeNameEmitsDoctype ==
    EndsAfterDoctypeName =>
        /\ pc # "hang"
        /\ Constructed =>
              tokens = <<[new_doctype EXCEPT !.name = <<Str(<<"a">>)>>,
                                             !.force_quirks = TRUE],
                         EOF>>

\* what the code does: no token at all, and the loop of scan turns in
\* AfterDOCTYPEName without end
C33_EofAfterDoctypeNameHangs ==
    EndsAfterDoctypeName =>
        /\ tokens = <<>>
        /\ pc \in {"new", "scan", "hang"}
        /\ pc = "hang" => current_state = "AfterDOCTYPEName"

----------------------------------------------------------------------------
(* C34: a word that is not PUBLIC or SYSTEM after the name of a DOCTYPE. *)

DoctypeWordOfInput ==
    [s \in DoctypeWordInputs |->
        CHOOSE w \in DoctypeKeywords \cup DoctypeOtherWords : SerializeDoctypeWord(w) = s]

\* the one DOCTYPE of <!DOCTYPE a word> has been emitted, and EOF
DoctypeWordEmitted ==
    /\ Constructed
    /\ Len(tokens) = 2
    /\ IsDoctype(tokens[1])
    /\ tokens[2] = EOF

\* C34: after the name of a DOCTYPE, a word that is not PUBLIC or SYSTEM in
\* any case, a partial match such as PUBLIX or SYS> included, sets
\* force_quirks: the DOCTYPE emitted has force_quirks = true
C34_OtherWordForcesQuirks ==
    (input \in DoctypeWordInputs /\ DoctypeWordOfInput[input] \in DoctypeOtherWords) =>
        /\ pc \notin {"hang", "panic"}
        /\ Constructed => DoctypeWordEmitted /\ tokens[1].force_quirks

\* what the code does: force_quirks is set for a word that begins with
\* neither P nor S, in any case, and not set for one that does
C34_QuirksUnlessPOrS ==
    (input \in DoctypeWordInputs /\ DoctypeWordOfInput[input] \in DoctypeOtherWords) =>
        /\ pc \notin {"hang", "panic"}
        /\ Constructed =>
              /\ DoctypeWordEmitted
              /\ tokens[1].force_quirks <=>
                     to_ascii_uppercase(DoctypeWordOfInput[input][1])
                         \notin {goal_public[1], goal_system[1]}

----------------------------------------------------------------------------
(* C35: &# and &#x with no digit after them. *)

HEX_OPEN == NUMERIC_OPEN \o Str(<<"x">>)

ATTRIBUTE_OPEN == TAG_A_A \o Str(<<"=", "'">>)

\* the opening of a numeric reference at the head of s that no digit of its
\* kind follows (another scalar does, or nothing), or the empty string
UndigitedOpen(s) ==
    IF StartsWith(s, HEX_OPEN) /\ (Len(s) = 3 \/ ~is_ascii_hexdigit(s[4]))
    THEN HEX_OPEN
    ELSE IF /\ StartsWith(s, NUMERIC_OPEN)
            /\ ~StartsWith(s, HEX_OPEN)
            /\ Len(s) = 2 \/ ~is_ascii_digit(s[3])
         THEN NUMERIC_OPEN
         ELSE <<>>

\* what follows <a a=' in the input, or the empty string
AfterAttributeOpen ==
    IF StartsWith(input, ATTRIBUTE_OPEN)
    THEN SubSeq(input, Len(ATTRIBUTE_OPEN) + 1, Len(input))
    ELSE <<>>

\* the value of the one attribute of the tag under construction
CurrentValue == current_token[1].attributes[1].value

\* C35: when &# or &#x is followed by no digit of the required kind, by
\* another character or by the end of the input, the characters consumed so
\* far are flushed as they are, as Char tokens or into the attribute value
C35_OpenWithoutDigitIsFlushed ==
    /\ UndigitedOpen(input) # <<>> =>
          /\ pc \notin {"hang", "panic"}
          /\ Constructed => StartsWith(tokens, CharsOf(UndigitedOpen(input)))
    /\ UndigitedOpen(AfterAttributeOpen) # <<>> =>
          /\ pc \notin {"hang", "panic"}
          /\ Constructed =>
                /\ current_token # <<>>
                /\ StartsWith(CurrentValue, UndigitedOpen(AfterAttributeOpen))

\* what the code does: the same, but for &#x at the end of the input, which is
\* dropped
C35_HexOpenAtEndIsDropped ==
    /\ UndigitedOpen(input) # <<>> =>
          /\ pc \notin {"hang", "panic"}
          /\ Constructed =>
                IF input = HEX_OPEN
                THEN tokens = <<EOF>>
                ELSE StartsWith(tokens, CharsOf(UndigitedOpen(input)))
    /\ UndigitedOpen(AfterAttributeOpen) # <<>> =>
          /\ pc \notin {"hang", "panic"}
          /\ Constructed =>
                /\ current_token # <<>>
                /\ IF AfterAttributeOpen = HEX_OPEN
                   THEN CurrentValue = <<>>
                   ELSE StartsWith(CurrentValue, UndigitedOpen(AfterAttributeOpen))

----------------------------------------------------------------------------
(* C36: the characters matched by the look-ahead of <! and put back. *)

PartialDeclarationOfInput ==
    [s \in PartialDeclarationInputs |->
        CHOOSE d \in PartialDeclarations : SerializePartialDeclaration(d) = s]

\* C36: when <! is followed by text that is not --, DOCTYPE or [CDATA[ but
\* begins like one of them, the data of the bogus comment is the input between
\* <! and the next '>' (or the end of the input), in its case and order
C36_MatchedCharactersPutBack ==
    input \in PartialDeclarationInputs =>
        /\ pc \notin {"hang", "panic"}
        /\ Constructed =>
              tokens = <<[new_comment EXCEPT !.data = PartialDeclarationOfInput[input].word],
                         EOF>>

\* how many characters of word consume_doctype matches: the longest prefix
\* that is a prefix of DOCTYPE when upper-cased
DoctypeMatched(word) ==
    LET matches == {k \in 0..Len(word) :
                        /\ k <= Len(goal_doctype)
                        /\ \A i \in 1..k : to_ascii_uppercase(word[i]) = goal_doctype[i]}
    IN  CHOOSE k \in matches : \A j \in matches : j <= k

\* what the code does: the characters matched against DOCTYPE come back as the
\* upper-case letters of DOCTYPE, the others as they were written
C36_MatchedDoctypeLettersAreUpperCase ==
    input \in PartialDeclarationInputs =>
        /\ pc \notin {"hang", "panic"}
        /\ Constructed =>
              LET word == PartialDeclarationOfInput[input].word
                  n == IF word[1] = goal_doctype[1] THEN DoctypeMatched(word) ELSE 0
              IN  tokens = <<[new_comment EXCEPT
                                !.data = SubSeq(goal_doctype, 1, n)
                                         \o SubSeq(word, n + 1, Len(word))],
                             EOF>>

----------------------------------------------------------------------------
(* C37: the character after '<'. *)

is_ascii_alphabetic(c) == c \in UpperAlpha \/ c \in LowerAlpha

\* a turn of the loop in the tag open state, with a scalar to consume
InTagOpen ==
    /\ pc \in {"new", "scan"}
    /\ ~LastIsEOF
    /\ current_state = "TagOpen"
    /\ NextScalar # <<>>

\* the turn creates a start tag and reconsumes in the tag name state
StartsTag ==
    /\ current_token' = <<new_start_tag>>
    /\ tokens' = tokens
    /\ current_state' = "TagName"
    /\ reconsume'

\* the turn emits Char('<') and reconsumes in the data state
EmitsLessThanSign ==
    /\ tokens' = Append(tokens, Char(LESS_THAN_SIGN))
    /\ current_token' = current_token
    /\ current_state' = "Data"
    /\ reconsume'
    /\ current_character' = NextScalar

\* C37: in the tag open state a start tag is created only when the character
\* after '<' is an ASCII letter; for any other character that is not '!', '/'
\* or '?', a non-ASCII letter included, Char('<') is emitted and the character
\* is reconsumed in the data state
C37_StartTagOnlyAfterAsciiLetter ==
    [][InTagOpen =>
          /\ is_ascii_alphabetic(NextScalar[1]) => StartsTag
          /\ (/\ ~is_ascii_alphabetic(NextScalar[1])
              /\ NextScalar[1] \notin {EXCLAMATION_MARK, SOLIDUS, QUESTION_MARK})
                => EmitsLessThanSign]_vars

\* what the code does: the test is char::is_alphabetic, so a letter that is
\* not ASCII starts a tag too
C37_StartTagAfterAnyLetter ==
    [][InTagOpen =>
          /\ is_alphabetic(NextScalar[1]) => StartsTag
          /\ (/\ ~is_alphabetic(NextScalar[1])
              /\ NextScalar[1] \notin {EXCLAMATION_MARK, SOLIDUS, QUESTION_MARK})
                => EmitsLessThanSign]_vars

----------------------------------------------------------------------------
(* C38: the end tag that matches no open tag. *)

\* the turn takes the current token, an end tag that is not self-closing, out
\* of current_token (the turn of the self-closing start tag state makes the
\* tag self-closing before it emits it)
TakesEndTag ==
    /\ pc \in {"new", "scan"}
    /\ current_state # "SelfClosingStartTag"
    /\ current_token # <<>>
    /\ IsTag(current_token[1])
    /\ current_token[1].is_end_tag
    /\ ~current_token[1].self_closing
    /\ current_token' = <<>>

\* C38: an end tag that is not self-closing is appended to the queue only if
\* open_tags is not empty and its name is the top of open_tags; otherwise it is
\* discarded: no token is appended, open_tags is unchanged and current_token
\* is cleared
C38_UnmatchedEndTagIsDiscarded ==
    [][TakesEndTag =>
          IF open_tags # <<>> /\ Top(open_tags) = current_token[1].tag_name
          THEN /\ tokens' = Append(tokens, current_token[1])
               /\ open_tags' = SubSeq(open_tags, 1, Len(open_tags) - 1)
          ELSE /\ tokens' = tokens
               /\ open_tags' = open_tags]_vars

\* <a></b>: the end tag b has been discarded, and a is still open
C38_Witness ==
    /\ Constructed
    /\ input = Str(<<"<", "a", ">", "<", "/", "b", ">">>)
    /\ tokens = <<[new_start_tag EXCEPT !.tag_name = Str(<<"a">>)], EOF>>
    /\ open_tags = <<Str(<<"a">>)>>
    /\ current_token = <<>>

----------------------------------------------------------------------------
(* C39: the nesting of the emitted tags. *)

\* the emitted tokens read from the first: stack is the names of the start
\* tags that are not self-closing and not yet matched, nested is whether every
\* end tag that is not self-closing named the top of the stack when it came
RECURSIVE Nesting(_, _)
Nesting(emitted, sofar) ==
    IF emitted = <<>>
    THEN sofar
    ELSE LET t == Head(emitted)
             stack == sofar.stack
         IN  Nesting(Tail(emitted),
                     IF ~IsTag(t) \/ t.self_closing
                     THEN sofar
                     ELSE IF ~t.is_end_tag
                     THEN [sofar EXCEPT !.stack = Append(stack, t.tag_name)]
                     ELSE IF stack # <<>> /\ Top(stack) = t.tag_name
                     THEN [sofar EXCEPT !.stack = SubSeq(stack, 1, Len(stack) - 1)]
                     ELSE [sofar EXCEPT !.nested = FALSE])

NestingOfTokens == Nesting(tokens, [stack |-> <<>>, nested |-> TRUE])

\* C39: the emitted tags are properly nested: as long as no token has been
\* taken from the queue, open_tags is the stack of the names of the emitted
\* start tags that are not self-closing and not yet matched, and every emitted
\* end tag that is not self-closing has the name of the most recent unmatched
\* start tag
C39_EmittedTagsAreNested ==
    (returned = <<>> /\ scan_calls = 0) =>
        /\ NestingOfTokens.nested
        /\ open_tags = NestingOfTokens.stack

\* <a><a></a>: the inner a has been matched, the outer one is open
C39_Witness ==
    /\ Constructed
    /\ input = Str(<<"<", "a", ">", "<", "a", ">", "<", "/", "a", ">">>)
    /\ Len(tokens) = 4
    /\ tokens[3].is_end_tag
    /\ open_tags = <<Str(<<"a">>)>>

----------------------------------------------------------------------------
(* C40: the name of a tag. *)

\* the turn puts a new tag token, with the empty name, in current_token
CreatesTag ==
    /\ current_token' # current_token
    /\ current_token' # <<>>
    /\ IsTag(current_token'[1])
    /\ current_token'[1].tag_name = <<>>

\* C40: every Tag token in the queue has a name that is not empty: a tag
\* token is created only when a letter follows '<' or '</', and the letter is
\* reconsumed into the name before the tag can be emitted
C40_TagNameIsNotEmpty ==
    /\ [](\A i \in DOMAIN tokens : IsTag(tokens[i]) => tokens[i].tag_name # <<>>)
    /\ [][(pc \in {"new", "scan"} /\ CreatesTag) =>
            /\ current_state \in {"TagOpen", "EndTagOpen"}
            /\ NextScalar # <<>>
            /\ is_alphabetic(NextScalar[1])
            /\ tokens' = tokens
            /\ current_state' = "TagName"
            /\ reconsume'
            /\ current_character' = NextScalar]_vars
    /\ [][(/\ pc \in {"new", "scan"}
           /\ current_token # <<>>
           /\ IsTag(current_token[1])
           /\ current_token[1].tag_name = <<>>) =>
            /\ current_state = "TagName"
            /\ tokens' = tokens
            /\ current_token' # <<>>
            /\ Len(current_token'[1].tag_name) = 1]_vars

\* a start tag and its end tag have been emitted, each with one letter as its name
C40_Witness ==
    /\ Constructed
    /\ Len(tokens) = 3
    /\ IsTag(tokens[1]) /\ ~tokens[1].is_end_tag /\ Len(tokens[1].tag_name) = 1
    /\ IsTag(tokens[2]) /\ tokens[2].is_end_tag /\ Len(tokens[2].tag_name) = 1

====
